---- MODULE Spec2Model ----
(***************************************************************************)
(* A model of the AWS Batch job lifecycle engine of                        *)
(* notes/aio_aws/aio_aws_batch.py: the job record, the TinyDB job store,   *)
(* the client semaphore around every remote call, the job waiter, the job  *)
(* manager and the batch runner.                                           *)
(*                                                                         *)
(* Every coroutine is a process; one step of a process is the code it      *)
(* runs between two suspension points (an await of a remote call, of a     *)
(* sleep, or of a semaphore).  The remote batch service is the             *)
(* environment: each answer it can give is a separate action.              *)
(***************************************************************************)
EXTENDS Integers, Sequences, FiniteSets, TLC

VARIABLES
    job,               \* task -> the AWSBatchJob the manager task owns
    pc,                \* process -> where it stands in its coroutine
    at,                \* process -> position inside an adapter call or a save
    tries,             \* process -> the adapter's local `tries`
    monitor_failures,  \* task -> the waiter's local `monitor_failures`
    job_desc,          \* task -> the manager's local `job_desc`
    result,            \* task -> the value the manager returned
    error,             \* process -> the exception that ended it
    sem,               \* free slots of config.sem (CLIENT_SEMAPHORE)
    db_lock,           \* free slots of AWSBatchDB.DB_SEMAPHORE
    store,             \* the TinyDB table: documents in doc_id order
    remote,            \* the batch service: remote[i] is the jobName of jobId i
    runner,            \* the event loop of aio_batch_run_jobs / main
    client_closed,     \* client.close() has run
    run,               \* which process run this is (a restart starts the next)
    ncalls,            \* history: remote calls issued by the current adapter call
    answers,           \* history: the remote's answers to them, in order
    opjob,             \* history: the record as the current adapter call found it
    entry,             \* history: the record as it entered the manager
    submitted,         \* history: the task has issued a submit call in this run
    succeeded,         \* history: names a manager of an earlier run saw SUCCEEDED
    doc_ids,           \* the TinyDB doc_id of each document of the table, in order
    last_id,           \* the last doc_id the open table has handed out
    dbcall,            \* history: the last call of a store method, with what it returned
    missed             \* history: task -> describe answers in a row without its entry

vars == <<job, pc, at, tries, monitor_failures, missed, job_desc, result, error, sem,
          db_lock, store, remote, runner, client_closed, run, ncalls, answers,
          opjob, entry, submitted, succeeded, doc_ids, last_id, dbcall>>

---------------------------------------------------------------------------
(* Bounds of the model *)

\* config.retries (the program's default is 5)
Retries == 2
\* the largest max_tries a record carries (the program's default is 4)
MaxTries == 2
\* the width of config.sem
GateWidth == 1
\* the number of job ids the remote service hands out
MaxIds == 3
\* the number of process runs (a restart starts the next)
MaxRuns == 2

\* the number of job ids a user of the store saves records of
MaxRows == 2
\* the number of doc_ids the table hands out
MaxDocs == 3
\* the length of the longest job_name a record is constructed with
MaxNameLen == 130

\* the job names of the batch
JobNames == {"t-0000", "t-0001"}
\* the process of a caller that terminates jobs
Caller == "caller"

---------------------------------------------------------------------------
(* The job record *)

NoId == 0
NoStatus == "NONE"

STATUSES ==
    <<"SUBMITTED", "PENDING", "RUNNABLE", "STARTING", "RUNNING", "SUCCEEDED", "FAILED">>

StatusSet == {STATUSES[i] : i \in 1..Len(STATUSES)}

Terminal == {"SUCCEEDED", "FAILED"}
Startup == {"SUBMITTED", "PENDING", "RUNNABLE"}

\* statusReason values, as the words of the text
ReasonSpot == <<"Host", "EC2", "(instance", "i-aaa)", "terminated">>
ReasonContainer == <<"Essential", "container", "in", "task", "exited">>
ReasonNotAtStart == <<"Spot", "Host", "EC2", "terminated">>
Reasons == {ReasonSpot, ReasonContainer, ReasonNotAtStart}

\* a job description without a statusReason key carries hasReason = FALSE
NoDesc ==
    [jobId |-> NoId, status |-> NoStatus, hasReason |-> FALSE,
     statusReason |-> <<>>, createdAt |-> 0]

AWSBatchJob(name, mt) ==
    [job_name |-> name, job_queue |-> "batch-dev", job_definition |-> "batch-dev",
     job_id |-> NoId, status |-> NoStatus, job_tries |-> <<>>, num_tries |-> 0,
     max_tries |-> mt, job_submission |-> NoId, job_description |-> NoDesc]

\* the length __post_init__ cuts a job_name to
NameCap == 128

\* a slice that keeps one character more
FirstCharsInclusive(name) ==
    IF Len(name) <= NameCap + 1 THEN name ELSE SubSeq(name, 1, NameCap + 1)

\* job_name[:128], for a name that is a sequence of characters
FirstChars(name) ==
    IF Len(name) <= NameCap THEN name ELSE SubSeq(name, 1, NameCap)

\* AWSBatchJob(job_name=name, ...): __post_init__ cuts the name
AWSBatchJobNamed(name) == [AWSBatchJob("", 1) EXCEPT !.job_name = FirstChars(name)]

\* the params property: what submit_job is called with
params(j) ==
    [jobName |-> j.job_name, jobQueue |-> j.job_queue, jobDefinition |-> j.job_definition]

db_data(j) ==
    [job_id |-> j.job_id, job_name |-> j.job_name, job_queue |-> j.job_queue,
     job_definition |-> j.job_definition, job_submission |-> j.job_submission,
     job_description |-> j.job_description, status |-> j.status,
     job_tries |-> j.job_tries, num_tries |-> j.num_tries, max_tries |-> j.max_tries]

\* AWSBatchJob(**job_data)
FromRow(row) ==
    [job_name |-> row.job_name, job_queue |-> row.job_queue,
     job_definition |-> row.job_definition, job_id |-> row.job_id,
     status |-> row.status, job_tries |-> row.job_tries, num_tries |-> row.num_tries,
     max_tries |-> row.max_tries, job_submission |-> row.job_submission,
     job_description |-> row.job_description]

\* a reset that forgets the tries as well
reset_tries(j) ==
    [j EXCEPT !.job_id = NoId, !.job_description = NoDesc, !.job_submission = NoId,
              !.status = NoStatus, !.job_tries = <<>>, !.num_tries = 0]

reset(j) ==
    [j EXCEPT !.job_id = NoId, !.job_description = NoDesc,
              !.job_submission = NoId, !.status = NoStatus]

---------------------------------------------------------------------------
(* The job store *)

\* a search that stops at the first document it matches
find_by_job_name_first(db, name) ==
    IF \E i \in 1..Len(db) : db[i].job_name = name
    THEN <<db[CHOOSE i \in 1..Len(db) :
                  db[i].job_name = name /\ \A k \in 1..(i - 1) : db[k].job_name # name]>>
    ELSE <<>>

find_by_job_name(db, name) == SelectSeq(db, LAMBDA row : row.job_name = name)

\* a lookup that returns the first document of the table
find_by_job_id_first(db, id) ==
    IF id # NoId /\ db # <<>> THEN <<db[1]>> ELSE <<>>

find_by_job_id(db, id) ==
    IF id # NoId THEN SelectSeq(db, LAMBDA row : row.job_id = id) ELSE <<>>

\* a table that inserts without looking for the job_id
upsert_insert(db, data, id) == Append(db, data)

\* an upsert whose update has no condition: it writes over every document
upsert_unkeyed(db, data, id) ==
    IF db # <<>> THEN [i \in 1..Len(db) |-> data] ELSE Append(db, data)

\* tinydb upsert: update every matching document in place, else insert at the end
upsert(db, data, id) ==
    IF \E i \in 1..Len(db) : db[i].job_id = id
    THEN [i \in 1..Len(db) |-> IF db[i].job_id = id THEN data ELSE db[i]]
    ELSE Append(db, data)

\* a save that keeps one row for each job name
save_by_job_name(db, j) ==
    IF \E i \in 1..Len(db) : db[i].job_name = j.job_name
    THEN [i \in 1..Len(db) |-> IF db[i].job_name = j.job_name THEN db_data(j) ELSE db[i]]
    ELSE Append(db, db_data(j))

\* a save that writes whatever the record holds
save_any(db, j) == upsert(db, db_data(j), j.job_id)

save(db, j) ==
    IF j.job_id # NoId THEN upsert(db, db_data(j), j.job_id) ELSE db

\* tinydb hands a new document the doc_id after the last one it handed out
Inserts(db, j) ==
    j.job_id # NoId /\ ~\E i \in 1..Len(db) : db[i].job_id = j.job_id

save_doc_ids(db, ids, last, j) ==
    IF Inserts(db, j) THEN Append(ids, last + 1) ELSE ids

save_last_id(db, last, j) ==
    IF Inserts(db, j) THEN last + 1 ELSE last

\* a table that is opened starts from the largest doc_id it holds
RECURSIVE MaxOf(_)
MaxOf(ids) ==
    IF ids = <<>> THEN 0
    ELSE LET m == MaxOf(Tail(ids)) IN IF Head(ids) > m THEN Head(ids) ELSE m

\* the elements of a sequence at a set of positions, in order
RECURSIVE Pick(_, _, _)
Pick(seq, keep, i) ==
    IF i > Len(seq) THEN <<>>
    ELSE (IF i \in keep THEN <<seq[i]>> ELSE <<>>) \o Pick(seq, keep, i + 1)

\* what a store method returns: None, documents, doc_ids or job records
None == [kind |-> "None", rows |-> <<>>, ids |-> <<>>]
Documents(rows) == [kind |-> "documents", rows |-> rows, ids |-> <<>>]
Document(row) == [kind |-> "document", rows |-> <<row>>, ids |-> <<>>]
DocIds(ids) == [kind |-> "doc_ids", rows |-> <<>>, ids |-> ids]
Jobs(jobs) == [kind |-> "jobs", rows |-> jobs, ids |-> <<>>]

\* a job id as a return value
JobId(id) == [kind |-> "job_id", rows |-> <<>>, ids |-> <<id>>]

\* a save that returns the record's job_id
save_returns_job_id(db, ids, last, j) ==
    IF j.job_id = NoId THEN None ELSE JobId(j.job_id)

\* return self.jobs_db.upsert(...): the doc_ids of the documents written
save_returns(db, ids, last, j) ==
    IF j.job_id = NoId THEN None
    ELSE IF Inserts(db, j) THEN DocIds(<<last + 1>>)
    ELSE DocIds(Pick(ids, {i \in 1..Len(db) : db[i].job_id = j.job_id}, 1))

\* self.jobs_db.get(job_query.job_id == job_id): the first matching document
find_by_job_id_returns(db, id) ==
    IF find_by_job_id(db, id) # <<>> THEN Document(find_by_job_id(db, id)[1]) ELSE None

\* self.jobs_db.remove(doc_ids=[...])
remove(db, gone) == Pick(db, (1..Len(db)) \ gone, 1)

\* the position of the document find_by_job_id returns
FirstWithId(db, id) ==
    CHOOSE i \in 1..Len(db) :
        db[i].job_id = id /\ \A k \in 1..(i - 1) : db[k].job_id # id

RemovedById(db, id) ==
    IF find_by_job_id(db, id) # <<>> THEN {FirstWithId(db, id)} ELSE {}

\* a remove that deletes the first document of the name only
RemovedByNameFirst(db, name) ==
    IF \E i \in 1..Len(db) : db[i].job_name = name
    THEN {CHOOSE i \in 1..Len(db) :
              db[i].job_name = name /\ \A k \in 1..(i - 1) : db[k].job_name # name}
    ELSE {}

RemovedByName(db, name) == {i \in 1..Len(db) : db[i].job_name = name}

\* a listing that leaves out every finished job
find_jobs_to_run_unfinished(db) ==
    LET jobs == [i \in 1..Len(db) |-> FromRow(db[i])]
    IN  SelectSeq(jobs, LAMBDA j : ~(j.job_id # NoId /\ j.status \in Terminal))

find_jobs_to_run(db) ==
    LET jobs == [i \in 1..Len(db) |-> FromRow(db[i])]
    IN  SelectSeq(jobs, LAMBDA j : ~(j.job_id # NoId /\ j.status = "SUCCEEDED"))

\* a filter that decides by the store alone
RECURSIVE jobs_to_run_by_store(_, _)
jobs_to_run_by_store(jobs, db) ==
    IF jobs = <<>> THEN <<>>
    ELSE LET j == Head(jobs)
             jobs_saved == find_by_job_name(db, j.job_name)
             rest == jobs_to_run_by_store(Tail(jobs), db)
         IN  IF jobs_saved # <<>> /\ jobs_saved[1].status = "SUCCEEDED"
             THEN rest
             ELSE <<j>> \o rest

RECURSIVE jobs_to_run(_, _)
jobs_to_run(jobs, db) ==
    IF jobs = <<>> THEN <<>>
    ELSE LET j == Head(jobs)
             jobs_saved == find_by_job_name(db, j.job_name)
             job_state == FromRow(jobs_saved[1])
             rest == jobs_to_run(Tail(jobs), db)
         IN  IF jobs_saved # <<>> /\ job_state.job_id # NoId
                                  /\ job_state.status = "SUCCEEDED"
             THEN rest
             ELSE IF j.job_id # NoId /\ j.status = "SUCCEEDED"
                  THEN rest
                  ELSE <<j>> \o rest

\* find_latest_job_name, a method the tests call and the engine module does not
\* define: of the rows of a name, in document order, the one whose
\* job_description.createdAt is largest (the first of them on a tie); a row without
\* a description counts as created at 0
RECURSIVE Latest(_, _)
Latest(rows, best) ==
    IF rows = <<>> THEN best
    ELSE Latest(Tail(rows),
                IF Head(rows).job_description.createdAt > best.job_description.createdAt
                THEN Head(rows) ELSE best)

find_latest_job_name(db, name) ==
    LET rows == find_by_job_name(db, name)
    IN  IF rows = <<>> THEN None ELSE Document(Latest(Tail(rows), Head(rows)))

\* find_jobs_by_status, find_complete_jobs and find_running_jobs, functions the
\* tests call and the engine module does not define: a job's effective status is
\* the status of the latest row of its name when a store is given and holds one,
\* and the job's own status otherwise; the jobs whose effective status is among
\* the states asked for are yielded in the order given
effective_status(j, db, given) ==
    LET latest == IF given THEN find_latest_job_name(db, j.job_name) ELSE None
    IN  IF latest # None THEN latest.rows[1].status ELSE j.status

\* a filter that looks at the job's own status only
find_jobs_by_status_in_memory(jobs, states, db, given) ==
    SelectSeq(jobs, LAMBDA j : j.status \in states)

find_jobs_by_status(jobs, states, db, given) ==
    SelectSeq(jobs, LAMBDA j : effective_status(j, db, given) \in states)

CompleteStates == {"SUCCEEDED", "FAILED"}
RunningStates == {"SUBMITTED", "PENDING", "RUNNABLE", "STARTING", "RUNNING"}

find_complete_jobs(jobs, db, given) == find_jobs_by_status(jobs, CompleteStates, db, given)
find_running_jobs(jobs, db, given) == find_jobs_by_status(jobs, RunningStates, db, given)

---------------------------------------------------------------------------
(* The remote service's answers and the manager's reading of them *)

\* re.search in place of re.match: the pattern may start at any word
SpotFailureAnywhere(reason) ==
    \E k \in 1..Len(reason) :
        /\ Len(reason) >= k + 2
        /\ reason[k] = "Host"
        /\ reason[k + 1] = "EC2"
        /\ \E i \in (k + 2)..Len(reason) : reason[i] = "terminated"

\* re.match(r"Host EC2.*terminated", reason): anchored at the start of the text
SpotFailure(reason) ==
    /\ Len(reason) >= 3
    /\ reason[1] = "Host"
    /\ reason[2] = "EC2"
    /\ \E i \in 3..Len(reason) : reason[i] = "terminated"

Rank(s) ==
    IF s = NoStatus THEN 0
    ELSE CHOOSE i \in 1..Len(STATUSES) : STATUSES[i] = s

\* the statuses the remote service is seen in: one of the start-up statuses, one
\* of the running statuses and both final ones
RemoteStatuses == {"RUNNABLE", "RUNNING", "SUCCEEDED", "FAILED"}

\* the entries describe_jobs can return for the job a record names: a job's status
\* only advances, a finished job is described as it ended, and createdAt is the
\* remote clock at submission, which ticks with every job
Descriptions(j) ==
    IF j.status \in Terminal THEN {j.job_description}
    ELSE { [jobId |-> j.job_id, status |-> s, hasReason |-> FALSE,
            statusReason |-> <<>>, createdAt |-> j.job_id] :
               s \in {x \in RemoteStatuses : Rank(x) >= Rank(j.status)} }
         \cup
         { [jobId |-> j.job_id, status |-> "FAILED", hasReason |-> TRUE,
            statusReason |-> r, createdAt |-> j.job_id] : r \in Reasons }

---------------------------------------------------------------------------
(* Processes *)

\* the manager tasks, and every process (the tasks and, when there is one, the
\* caller that terminates jobs)
Batch == DOMAIN job
Procs == DOMAIN pc

InAdapter(p) == at[p] \in {"try", "inflight", "jitter"}

\* the coroutine pc[p] names has raised error[p]
Raised(p) == at[p] = "raised"

Upd(f, p, v) == IF p \in DOMAIN f THEN [f EXCEPT ![p] = v] ELSE f

\* no store method has been called
NoCall ==
    [op |-> "none", job |-> <<>>, id |-> NoId, name |-> "", states |-> {},
     jobs_db |-> FALSE, before |-> <<>>, before_ids |-> <<>>, ret |-> None]

\* a process start: the event loop, the semaphores and every coroutine are new
Start(recs, procs) ==
    /\ job' = recs
    /\ at' = [p \in procs |-> "-"]
    /\ tries' = [p \in procs |-> 0]
    /\ monitor_failures' = [p \in DOMAIN recs |-> 0]
    /\ missed' = [p \in DOMAIN recs |-> 0]
    /\ job_desc' = [p \in DOMAIN recs |-> NoDesc]
    /\ result' = [p \in DOMAIN recs |-> NoDesc]
    /\ error' = [p \in procs |-> "-"]
    /\ sem' = GateWidth
    /\ db_lock' = 1
    /\ client_closed' = FALSE
    /\ ncalls' = [p \in procs |-> 0]
    /\ answers' = [p \in procs |-> <<>>]
    /\ opjob' = recs
    /\ entry' = recs
    /\ submitted' = [p \in DOMAIN recs |-> FALSE]
    /\ last_id' = MaxOf(doc_ids)

\* the first run: an empty store, fresh records, one manager task for each
InitWith(recs, procs) ==
    /\ job = recs
    /\ pc = [p \in procs |-> IF p \in DOMAIN recs THEN "loop" ELSE "idle"]
    /\ at = [p \in procs |-> "-"]
    /\ tries = [p \in procs |-> 0]
    /\ monitor_failures = [p \in DOMAIN recs |-> 0]
    /\ missed = [p \in DOMAIN recs |-> 0]
    /\ job_desc = [p \in DOMAIN recs |-> NoDesc]
    /\ result = [p \in DOMAIN recs |-> NoDesc]
    /\ error = [p \in procs |-> "-"]
    /\ sem = GateWidth
    /\ db_lock = 1
    /\ store = <<>>
    /\ remote = <<>>
    /\ runner = "running"
    /\ client_closed = FALSE
    /\ run = 1
    /\ ncalls = [p \in procs |-> 0]
    /\ answers = [p \in procs |-> <<>>]
    /\ opjob = recs
    /\ entry = recs
    /\ submitted = [p \in DOMAIN recs |-> FALSE]
    /\ succeeded = {}
    /\ doc_ids = <<>>
    /\ last_id = 0
    /\ dbcall = NoCall

---------------------------------------------------------------------------
(* The adapter: `async with config.sem`, then the throttle-retry loop.     *)
(* aio_batch_job_submit, aio_batch_job_status and aio_batch_job_terminate  *)
(* hold the same loop; pc[p] says which of them p is in.                   *)

AdapterOps == {"submit", "status", "terminate"}

\* a semaphore that hands out a slot it does not have
SemFreeAlways(value) == TRUE

\* asyncio.Semaphore.acquire returns once a slot is free
SemFree(value) == value > 0

\* async with config.sem: ; tries = 0
AdapterAcquire(p) ==
    /\ runner = "running"
    /\ pc[p] \in AdapterOps /\ at[p] = "-"
    /\ SemFree(sem)
    /\ sem' = sem - 1
    /\ at' = [at EXCEPT ![p] = "try"]
    /\ tries' = [tries EXCEPT ![p] = 0]
    /\ ncalls' = [ncalls EXCEPT ![p] = 0]
    /\ answers' = [answers EXCEPT ![p] = <<>>]
    /\ opjob' = IF p \in Batch THEN [opjob EXCEPT ![p] = job[p]] ELSE opjob
    /\ UNCHANGED <<job, pc, monitor_failures, missed, job_desc, result, error, db_lock, store,
                   remote, runner, client_closed, run, entry, submitted, succeeded,
                   doc_ids, last_id, dbcall>>

\* a loop that tries once more than config.retries
AdapterLoopTestInclusive(t) == t <= Retries

\* while tries < config.retries
AdapterLoopTest(t) == t < Retries

\* tries += 1 ; await client.<operation>(...)
AdapterCall(p) ==
    /\ runner = "running"
    /\ pc[p] \in AdapterOps /\ at[p] = "try"
    /\ AdapterLoopTest(tries[p])
    /\ tries' = [tries EXCEPT ![p] = @ + 1]
    /\ at' = [at EXCEPT ![p] = "inflight"]
    /\ ncalls' = [ncalls EXCEPT ![p] = @ + 1]
    /\ submitted' = IF pc[p] = "submit" THEN [submitted EXCEPT ![p] = TRUE]
                                       ELSE submitted
    /\ UNCHANGED <<job, pc, monitor_failures, missed, job_desc, result, error, sem, db_lock,
                   store, remote, runner, client_closed, run, answers, opjob, entry,
                   succeeded,
                   doc_ids, last_id, dbcall>>

\* a loop whose else branch raises without leaving the `async with`
AdapterExceededHolding(p) ==
    /\ runner = "running"
    /\ pc[p] \in AdapterOps /\ at[p] = "try"
    /\ ~AdapterLoopTest(tries[p])
    /\ at' = [at EXCEPT ![p] = "raised"]
    /\ error' = [error EXCEPT ![p] = "RuntimeError"]
    /\ tries' = [tries EXCEPT ![p] = 0]
    /\ monitor_failures' = Upd(monitor_failures, p, 0)
    /\ missed' = Upd(missed, p, 0)
    /\ job_desc' = Upd(job_desc, p, NoDesc)
    /\ UNCHANGED <<job, pc, result, db_lock, store, remote, runner, client_closed,
                   run, ncalls, answers, opjob, entry, submitted, succeeded,
                   doc_ids, last_id, dbcall, sem>>

\* the while's else: raise RuntimeError("... exceeded retries")
AdapterExceeded(p) ==
    /\ runner = "running"
    /\ pc[p] \in AdapterOps /\ at[p] = "try"
    /\ ~AdapterLoopTest(tries[p])
    /\ sem' = sem + 1
    /\ at' = [at EXCEPT ![p] = "raised"]
    /\ error' = [error EXCEPT ![p] = "RuntimeError"]
    /\ tries' = [tries EXCEPT ![p] = 0]
    /\ monitor_failures' = Upd(monitor_failures, p, 0)
    /\ missed' = Upd(missed, p, 0)
    /\ job_desc' = Upd(job_desc, p, NoDesc)
    /\ UNCHANGED <<job, pc, result, db_lock, store, remote, runner, client_closed,
                   run, ncalls, answers, opjob, entry, submitted, succeeded,
                   doc_ids, last_id, dbcall>>

\* after a TooManyRequestsException: sleep only if another try is left
ThrottleNext(t) == IF t < Retries THEN "jitter" ELSE "try"

\* except ClientError with Code == "TooManyRequestsException"
AdapterThrottled(p) ==
    /\ runner = "running"
    /\ pc[p] \in AdapterOps /\ at[p] = "inflight"
    /\ at' = [at EXCEPT ![p] = ThrottleNext(tries[p])]
    /\ answers' = [answers EXCEPT ![p] = Append(@, "throttle")]
    /\ UNCHANGED <<job, pc, tries, monitor_failures, missed, job_desc, result, error, sem,
                   db_lock, store, remote, runner, client_closed, run, ncalls, opjob,
                   entry, submitted, succeeded,
                   doc_ids, last_id, dbcall>>

\* await jitter(...) is over; continue
AdapterJitter(p) ==
    /\ runner = "running"
    /\ pc[p] \in AdapterOps /\ at[p] = "jitter"
    /\ at' = [at EXCEPT ![p] = "try"]
    /\ UNCHANGED <<job, pc, tries, monitor_failures, missed, job_desc, result, error, sem,
                   db_lock, store, remote, runner, client_closed, run, ncalls, answers,
                   opjob, entry, submitted, succeeded,
                   doc_ids, last_id, dbcall>>

\* an adapter that treats every client error as a throttle
AdapterClientErrorRetried(p) ==
    /\ runner = "running"
    /\ pc[p] \in AdapterOps /\ at[p] = "inflight"
    /\ at' = [at EXCEPT ![p] = ThrottleNext(tries[p])]
    /\ answers' = [answers EXCEPT ![p] = Append(@, "error")]
    /\ UNCHANGED <<job, pc, tries, monitor_failures, missed, job_desc, result, error, sem,
                   db_lock, store, remote, runner, client_closed, run, ncalls, opjob,
                   entry, submitted, succeeded,
                   doc_ids, last_id, dbcall>>

\* except ClientError with any other code: raise
AdapterClientError(p) ==
    /\ runner = "running"
    /\ pc[p] \in AdapterOps /\ at[p] = "inflight"
    /\ sem' = sem + 1
    /\ at' = [at EXCEPT ![p] = "raised"]
    /\ error' = [error EXCEPT ![p] = "ClientError"]
    /\ tries' = [tries EXCEPT ![p] = 0]
    /\ answers' = [answers EXCEPT ![p] = Append(@, "error")]
    /\ monitor_failures' = Upd(monitor_failures, p, 0)
    /\ missed' = Upd(missed, p, 0)
    /\ job_desc' = Upd(job_desc, p, NoDesc)
    /\ UNCHANGED <<job, pc, result, db_lock, store, remote, runner, client_closed,
                   run, ncalls, opjob, entry, submitted, succeeded,
                   doc_ids, last_id, dbcall>>

\* the task or the caller is cancelled inside `async with config.sem`, at its await
\* of the remote call or of the jitter: CancelledError leaves the block, which
\* releases the slot
AdapterCancelled(p) ==
    /\ runner = "running"
    /\ pc[p] \in AdapterOps /\ at[p] \in {"inflight", "jitter"}
    /\ sem' = sem + 1
    /\ at' = [at EXCEPT ![p] = "raised"]
    /\ error' = [error EXCEPT ![p] = "CancelledError"]
    /\ tries' = [tries EXCEPT ![p] = 0]
    /\ monitor_failures' = Upd(monitor_failures, p, 0)
    /\ missed' = Upd(missed, p, 0)
    /\ job_desc' = Upd(job_desc, p, NoDesc)
    /\ UNCHANGED <<job, pc, result, db_lock, store, remote, runner, client_closed,
                   run, ncalls, answers, opjob, entry, submitted, succeeded,
                   doc_ids, last_id, dbcall>>

\* a record that lists its newest job id first
SubmittedNewestFirst(j, id) ==
    [j EXCEPT !.job_id = id, !.job_submission = id,
              !.job_tries = <<id>> \o @, !.num_tries = @ + 1]

\* a submit that counts the try and does not list its job id
SubmittedUnlisted(j, id) ==
    [j EXCEPT !.job_id = id, !.job_submission = id, !.num_tries = @ + 1]

\* a submit that does not count the try
SubmittedUncounted(j, id) ==
    [j EXCEPT !.job_id = id, !.job_submission = id, !.job_tries = Append(@, id)]

\* if response_success(response): the record takes the new job id
Submitted(j, id) ==
    [j EXCEPT !.job_id = id, !.job_submission = id,
              !.job_tries = Append(@, id), !.num_tries = @ + 1]

\* a manager that starts the waiter right after the submit, without its save
SubmitOkUnsaved(p) ==
    /\ runner = "running"
    /\ pc[p] = "submit" /\ at[p] = "inflight"
    /\ Len(remote) < MaxIds
    /\ remote' = Append(remote, job[p].job_name)
    /\ job' = [job EXCEPT ![p] = Submitted(@, Len(remote) + 1)]
    /\ sem' = sem + 1
    /\ pc' = [pc EXCEPT ![p] = "status"]
    /\ at' = [at EXCEPT ![p] = "-"]
    /\ tries' = [tries EXCEPT ![p] = 0]
    /\ answers' = [answers EXCEPT ![p] = Append(@, "ok")]
    /\ UNCHANGED <<monitor_failures, missed, job_desc, result, error, db_lock, store, runner,
                   client_closed, run, ncalls, opjob, entry, submitted, succeeded,
                   doc_ids, last_id, dbcall>>

\* client.submit_job answers with a new jobId
SubmitOk(p) ==
    /\ runner = "running"
    /\ pc[p] = "submit" /\ at[p] = "inflight"
    /\ Len(remote) < MaxIds
    /\ remote' = Append(remote, job[p].job_name)
    /\ job' = [job EXCEPT ![p] = Submitted(@, Len(remote) + 1)]
    /\ sem' = sem + 1
    /\ pc' = [pc EXCEPT ![p] = "save_submit"]
    /\ at' = [at EXCEPT ![p] = "-"]
    /\ tries' = [tries EXCEPT ![p] = 0]
    /\ answers' = [answers EXCEPT ![p] = Append(@, "ok")]
    /\ UNCHANGED <<monitor_failures, missed, job_desc, result, error, db_lock, store, runner,
                   client_closed, run, ncalls, opjob, entry, submitted, succeeded,
                   doc_ids, last_id, dbcall>>

\* client.submit_job answers with a response that is not a success
SubmitNotSuccess(p) ==
    /\ runner = "running"
    /\ pc[p] = "submit" /\ at[p] = "inflight"
    /\ sem' = sem + 1
    /\ pc' = [pc EXCEPT ![p] = "save_submit"]
    /\ at' = [at EXCEPT ![p] = "-"]
    /\ tries' = [tries EXCEPT ![p] = 0]
    /\ answers' = [answers EXCEPT ![p] = Append(@, "not-success")]
    /\ UNCHANGED <<job, monitor_failures, missed, job_desc, result, error, db_lock, store,
                   remote, runner, client_closed, run, ncalls, opjob, entry, submitted,
                   succeeded,
                   doc_ids, last_id, dbcall>>

---------------------------------------------------------------------------
(* The job waiter *)

\* job.job_description = job_desc ; job.status = job_desc["status"]
Described(j, d) == [j EXCEPT !.job_description = d, !.status = d.status]

\* a waiter that returns as soon as the job runs
AfterDescriptionRunning(s) ==
    IF s \in Terminal \cup {"RUNNING"} THEN "save_wait"
    ELSE IF s \in Startup THEN "pause_start"
    ELSE "pause"

\* a waiter that pauses and describes again whatever the status
AfterDescriptionPauses(s) ==
    IF s \in Startup THEN "pause_start" ELSE "pause"

\* where the waiter goes after it has read a description: `return job_desc` on a
\* final status, the longer pause on a start-up status, the pause otherwise
AfterDescription(s) ==
    IF s \in Terminal THEN "save_wait"
    ELSE IF s \in Startup THEN "pause_start"
    ELSE "pause"

\* describe_jobs answers with an entry for the job
StatusFound(p, d) ==
    /\ runner = "running"
    /\ pc[p] = "status" /\ at[p] = "inflight"
    /\ job[p].job_id # NoId
    /\ d \in Descriptions(job[p])
    /\ sem' = sem + 1
    /\ job' = [job EXCEPT ![p] = Described(@, d)]
    /\ job_desc' = [job_desc EXCEPT
                       ![p] = IF AfterDescription(d.status) = "save_wait" THEN d ELSE @]
    /\ pc' = [pc EXCEPT ![p] = AfterDescription(d.status)]
    /\ at' = [at EXCEPT ![p] = "-"]
    /\ tries' = [tries EXCEPT ![p] = 0]
    /\ answers' = [answers EXCEPT ![p] = Append(@, "ok")]
    /\ opjob' = [opjob EXCEPT ![p] = Described(job[p], d)]
    /\ monitor_failures' = [monitor_failures EXCEPT
                               ![p] = IF AfterDescription(d.status) = "save_wait"
                                      THEN 0 ELSE @]
    /\ missed' = [missed EXCEPT ![p] = 0]
    /\ UNCHANGED <<result, error, db_lock, store, remote, runner, client_closed, run,
                   ncalls, entry, submitted, succeeded,
                   doc_ids, last_id, dbcall>>

\* monitor_failures > config.retries: break
GiveUp(failures) == failures > Retries

\* describe_jobs answers without an entry for the job
StatusMiss(p) ==
    /\ runner = "running"
    /\ pc[p] = "status" /\ at[p] = "inflight"
    /\ sem' = sem + 1
    /\ monitor_failures' = [monitor_failures EXCEPT ![p] = @ + 1]
    /\ missed' = [missed EXCEPT ![p] = @ + 1]
    /\ job_desc' = [job_desc EXCEPT
                       ![p] = IF GiveUp(monitor_failures[p] + 1) THEN NoDesc ELSE @]
    /\ pc' = [pc EXCEPT
                 ![p] = IF GiveUp(monitor_failures[p] + 1) THEN "save_wait" ELSE "pause"]
    /\ at' = [at EXCEPT ![p] = "-"]
    /\ tries' = [tries EXCEPT ![p] = 0]
    /\ answers' = [answers EXCEPT ![p] = Append(@, "miss")]
    /\ UNCHANGED <<job, result, error, db_lock, store, remote, runner, client_closed,
                   run, ncalls, opjob, entry, submitted, succeeded,
                   doc_ids, last_id, dbcall>>

\* await delay(job.job_name, config.start_pause, config.start_pause * 2) is over
WaiterStartPause(p) ==
    /\ runner = "running"
    /\ pc[p] = "pause_start"
    /\ pc' = [pc EXCEPT ![p] = "pause"]
    /\ ncalls' = [ncalls EXCEPT ![p] = 0]
    /\ answers' = [answers EXCEPT ![p] = <<>>]
    /\ UNCHANGED <<job, at, tries, monitor_failures, missed, job_desc, result, error, sem,
                   db_lock, store, remote, runner, client_closed, run,
                   opjob, entry, submitted, succeeded,
                   doc_ids, last_id, dbcall>>

\* await delay(job.job_name, config.min_pause, config.max_pause) is over
WaiterPause(p) ==
    /\ runner = "running"
    /\ pc[p] = "pause"
    /\ pc' = [pc EXCEPT ![p] = "status"]
    /\ ncalls' = [ncalls EXCEPT ![p] = 0]
    /\ answers' = [answers EXCEPT ![p] = <<>>]
    /\ UNCHANGED <<job, at, tries, monitor_failures, missed, job_desc, result, error, sem,
                   db_lock, store, remote, runner, client_closed, run,
                   opjob, entry, submitted, succeeded,
                   doc_ids, last_id, dbcall>>

---------------------------------------------------------------------------
(* The job manager *)

\* a loop that runs one attempt past max_tries
ManagerLoopTestInclusive(j) == j.num_tries <= j.max_tries

\* while job.num_tries < job.max_tries
ManagerLoopTest(j) == j.num_tries < j.max_tries

\* a manager that submits whatever the record holds
MustSubmitAlways(j) == TRUE

\* if job.job_id is None
MustSubmit(j) == j.job_id = NoId

\* the head of the loop: submit, or go straight to the waiter
ManagerLoop(p) ==
    /\ runner = "running"
    /\ pc[p] = "loop"
    /\ ManagerLoopTest(job[p])
    /\ pc' = [pc EXCEPT ![p] = IF MustSubmit(job[p]) THEN "submit" ELSE "status"]
    /\ monitor_failures' = [monitor_failures EXCEPT ![p] = 0]
    /\ missed' = [missed EXCEPT ![p] = 0]
    /\ UNCHANGED <<job, at, tries, job_desc, result, error, sem, db_lock, store, remote,
                   runner, client_closed, run, ncalls, answers, opjob, entry, submitted,
                   succeeded,
                   doc_ids, last_id, dbcall>>

\* the while's else: LOGGER.warning("... retries exceeded.") and return None
ManagerRetriesExceeded(p) ==
    /\ runner = "running"
    /\ pc[p] = "loop"
    /\ ~ManagerLoopTest(job[p])
    /\ pc' = [pc EXCEPT ![p] = "done"]
    /\ result' = [result EXCEPT ![p] = NoDesc]
    /\ UNCHANGED <<job, at, tries, monitor_failures, missed, job_desc, error, sem, db_lock,
                   store, remote, runner, client_closed, run, ncalls, answers, opjob,
                   entry, submitted, succeeded,
                   doc_ids, last_id, dbcall>>

\* async with jobs_db.DB_SEMAPHORE:
LockAcquire(p) ==
    /\ runner = "running"
    /\ pc[p] \in {"save_submit", "save_wait", "save_reset"} /\ at[p] = "-"
    /\ SemFree(db_lock)
    /\ db_lock' = db_lock - 1
    /\ at' = [at EXCEPT ![p] = "locked"]
    /\ ncalls' = [ncalls EXCEPT ![p] = 0]
    /\ answers' = [answers EXCEPT ![p] = <<>>]
    /\ UNCHANGED <<job, pc, tries, monitor_failures, missed, job_desc, result, error, sem,
                   store, remote, runner, client_closed, run, opjob,
                   entry, submitted, succeeded,
                   doc_ids, last_id, dbcall>>

\* a manager that starts the waiter inside the `async with` of its save
SaveSubmitHolding(p) ==
    /\ runner = "running"
    /\ pc[p] = "save_submit" /\ at[p] = "locked"
    /\ store' = save(store, job[p])
    /\ doc_ids' = save_doc_ids(store, doc_ids, last_id, job[p])
    /\ last_id' = save_last_id(store, last_id, job[p])
    /\ pc' = [pc EXCEPT ![p] = "status"]
    /\ at' = [at EXCEPT ![p] = "-"]
    /\ monitor_failures' = [monitor_failures EXCEPT ![p] = 0]
    /\ missed' = [missed EXCEPT ![p] = 0]
    /\ UNCHANGED <<job, tries, job_desc, result, error, sem, remote, runner,
                   client_closed, run, ncalls, answers, opjob, entry, submitted, succeeded,
                   dbcall, db_lock>>

\* jobs_db.save(job) after the submit; then the waiter starts
SaveSubmit(p) ==
    /\ runner = "running"
    /\ pc[p] = "save_submit" /\ at[p] = "locked"
    /\ store' = save(store, job[p])
    /\ doc_ids' = save_doc_ids(store, doc_ids, last_id, job[p])
    /\ last_id' = save_last_id(store, last_id, job[p])
    /\ db_lock' = db_lock + 1
    /\ pc' = [pc EXCEPT ![p] = "status"]
    /\ at' = [at EXCEPT ![p] = "-"]
    /\ monitor_failures' = [monitor_failures EXCEPT ![p] = 0]
    /\ missed' = [missed EXCEPT ![p] = 0]
    /\ UNCHANGED <<job, tries, job_desc, result, error, sem, remote, runner,
                   client_closed, run, ncalls, answers, opjob, entry, submitted, succeeded,
                   dbcall>>

\* the manager's reading of the waiter's return value
Verdict(d) ==
    IF d = NoDesc THEN "TypeError"
    ELSE IF d.status = "SUCCEEDED" THEN "return"
    ELSE IF d.status = "FAILED" /\ d.hasReason /\ SpotFailure(d.statusReason)
         THEN "retry"
    ELSE "return"

\* jobs_db.save(job) after the waiter; then job_desc["status"] decides
SaveWait(p) ==
    /\ runner = "running"
    /\ pc[p] = "save_wait" /\ at[p] = "locked"
    /\ store' = save(store, job[p])
    /\ doc_ids' = save_doc_ids(store, doc_ids, last_id, job[p])
    /\ last_id' = save_last_id(store, last_id, job[p])
    /\ LET v == Verdict(job_desc[p])
       IN  /\ pc' = [pc EXCEPT ![p] = CASE v = "TypeError" -> @
                                        [] v = "retry" -> "save_reset"
                                        [] OTHER -> "done"]
           /\ at' = [at EXCEPT ![p] = IF v = "TypeError" THEN "raised" ELSE "-"]
           /\ db_lock' = db_lock + 1
           /\ error' = [error EXCEPT ![p] = IF v = "TypeError" THEN v ELSE @]
           /\ result' = [result EXCEPT ![p] = IF v = "return" THEN job_desc[p] ELSE @]
           /\ job' = [job EXCEPT ![p] = IF v = "retry" THEN reset(@) ELSE @]
    /\ monitor_failures' = [monitor_failures EXCEPT ![p] = 0]
    /\ missed' = [missed EXCEPT ![p] = 0]
    /\ job_desc' = [job_desc EXCEPT ![p] = NoDesc]
    /\ UNCHANGED <<tries, sem, remote, runner, client_closed, run, ncalls, answers,
                   opjob, entry, submitted, succeeded,
                   dbcall>>

\* jobs_db.save(job) after job.reset(); continue
SaveReset(p) ==
    /\ runner = "running"
    /\ pc[p] = "save_reset" /\ at[p] = "locked"
    /\ store' = save(store, job[p])
    /\ doc_ids' = save_doc_ids(store, doc_ids, last_id, job[p])
    /\ last_id' = save_last_id(store, last_id, job[p])
    /\ db_lock' = db_lock + 1
    /\ pc' = [pc EXCEPT ![p] = "loop"]
    /\ at' = [at EXCEPT ![p] = "-"]
    /\ UNCHANGED <<job, tries, monitor_failures, missed, job_desc, result, error, sem, remote,
                   runner, client_closed, run, ncalls, answers, opjob, entry, submitted,
                   succeeded,
                   dbcall>>

---------------------------------------------------------------------------
(* The batch runner *)

Finished(p) == pc[p] \in {"done", "skipped"}

\* handle_as_completed has consumed every task; finally: client.close()
RunnerClose ==
    /\ runner = "running"
    /\ \A p \in Batch : Finished(p)
    /\ runner' = "closed"
    /\ client_closed' = TRUE
    /\ UNCHANGED <<job, pc, at, tries, monitor_failures, missed, job_desc, result, error, sem,
                   db_lock, store, remote, run, ncalls, answers, opjob, entry, submitted,
                   succeeded,
                   doc_ids, last_id, dbcall>>

\* `await task` raises what a task raised; finally: client.close(), loop.close()
RunnerFail ==
    /\ runner = "running"
    /\ \E p \in Batch : Raised(p)
    /\ runner' = "failed"
    /\ client_closed' = TRUE
    /\ UNCHANGED <<job, pc, at, tries, monitor_failures, missed, job_desc, result, error, sem,
                   db_lock, store, remote, run, ncalls, answers, opjob, entry, submitted,
                   succeeded,
                   doc_ids, last_id, dbcall>>

---------------------------------------------------------------------------
(* A caller that terminates jobs with aio_batch_job_terminate *)

\* the caller picks a submitted job and calls aio_batch_job_terminate
CallerTerminate ==
    /\ runner = "running"
    /\ Caller \in Procs /\ pc[Caller] = "idle"
    /\ remote # <<>>
    /\ pc' = [pc EXCEPT ![Caller] = "terminate"]
    /\ ncalls' = [ncalls EXCEPT ![Caller] = 0]
    /\ answers' = [answers EXCEPT ![Caller] = <<>>]
    /\ UNCHANGED <<job, at, tries, monitor_failures, missed, job_desc, result, error, sem,
                   db_lock, store, remote, runner, client_closed, run, opjob, entry,
                   submitted, succeeded,
                   doc_ids, last_id, dbcall>>

\* client.terminate_job answers; return response
TerminateOk(p) ==
    /\ runner = "running"
    /\ pc[p] = "terminate" /\ at[p] = "inflight"
    /\ sem' = sem + 1
    /\ pc' = [pc EXCEPT ![p] = "idle"]
    /\ at' = [at EXCEPT ![p] = "-"]
    /\ tries' = [tries EXCEPT ![p] = 0]
    /\ answers' = [answers EXCEPT ![p] = Append(@, "ok")]
    /\ UNCHANGED <<job, monitor_failures, missed, job_desc, result, error, db_lock, store,
                   remote, runner, client_closed, run, ncalls, opjob, entry, submitted,
                   succeeded,
                   doc_ids, last_id, dbcall>>

---------------------------------------------------------------------------
(* A restart: the process is gone at any point (a crash, a cancel, or the    *)
(* end of the run) and is started again on the same store.                  *)

\* the names whose manager returned a SUCCEEDED description in this run
SucceededNow ==
    {n \in Batch : pc[n] = "done" /\ result[n].status = "SUCCEEDED"}

\* main(): a record is rebuilt from the first document saved under its name; it
\* is left out if that document is SUCCEEDED; a name without a document is fresh
Recovered(n) ==
    LET jobs_saved == find_by_job_name(store, n)
    IN  IF jobs_saved # <<>> THEN FromRow(jobs_saved[1])
        ELSE AWSBatchJob(n, job[n].max_tries)

RecoveredDone(n) ==
    LET jobs_saved == find_by_job_name(store, n)
    IN  /\ jobs_saved # <<>>
        /\ Recovered(n).job_id # NoId
        /\ Recovered(n).status = "SUCCEEDED"

RestartRecover ==
    /\ run < MaxRuns
    /\ run' = run + 1
    /\ succeeded' = succeeded \cup SucceededNow
    /\ Start([n \in Batch |-> Recovered(n)], Procs)
    /\ pc' = [p \in Procs |-> IF p \notin Batch THEN "idle"
                              ELSE IF RecoveredDone(p) THEN "skipped" ELSE "loop"]
    /\ runner' = "running"
    /\ UNCHANGED <<store, remote, doc_ids, dbcall>>

\* a sequence of the elements of a set
RECURSIVE SeqOf(_)
SeqOf(S) ==
    IF S = {} THEN <<>>
    ELSE LET x == CHOOSE y \in S : TRUE IN <<x>> \o SeqOf(S \ {x})

\* the module's entry point: fresh records, filtered by jobs_to_run, are given to
\* aio_batch_run_jobs; without any there is no run
FreshBatch == [n \in Batch |-> AWSBatchJob(n, job[n].max_tries)]

Kept ==
    LET out == jobs_to_run([i \in 1..Cardinality(Batch) |-> FreshBatch[SeqOf(Batch)[i]]],
                           store)
    IN  {out[i].job_name : i \in 1..Len(out)}

RestartFresh ==
    /\ run < MaxRuns
    /\ run' = run + 1
    /\ succeeded' = succeeded \cup SucceededNow
    /\ Start(FreshBatch, Procs)
    /\ pc' = [p \in Procs |-> IF p \notin Batch THEN "idle"
                              ELSE IF p \in Kept THEN "loop" ELSE "skipped"]
    /\ runner' = IF Kept = {} THEN "none" ELSE "running"
    /\ UNCHANGED <<store, remote, doc_ids, dbcall>>

---------------------------------------------------------------------------
(* A user of the store: the methods of AWSBatchDB and jobs_to_run, called   *)
(* one after the other on one open table.  No method awaits, so each call  *)
(* is one step.                                                            *)

\* the statuses of the records the user holds
DbStatuses == {NoStatus, "RUNNING", "SUCCEEDED", "FAILED"}

\* a record as a manager leaves it after one submit: the description the remote
\* gave for it carries the status, and createdAt is the remote clock at submission
HeldJob(name, id, s) ==
    [AWSBatchJob(name, 1) EXCEPT
        !.job_id = id, !.job_submission = id, !.status = s,
        !.job_tries = IF id = NoId THEN <<>> ELSE <<id>>,
        !.num_tries = IF id = NoId THEN 0 ELSE 1,
        !.job_description =
            IF s = NoStatus THEN NoDesc
            ELSE [jobId |-> id, status |-> s, hasReason |-> FALSE,
                  statusReason |-> <<>>, createdAt |-> id]]

\* the records the user holds: submitted ones, and fresh ones without a job id
DbRecords ==
    {HeldJob(n, id, s) : n \in JobNames, id \in 1..MaxRows, s \in DbStatuses}
        \cup {AWSBatchJob(n, 1) : n \in JobNames}

\* the input lists the user filters with jobs_to_run: one record, a record twice,
\* and a record followed by a fresh one
DbInputs ==
    {<<a>> : a \in DbRecords} \cup {<<a, a>> : a \in DbRecords}
        \cup {<<a, AWSBatchJob(n, 1)>> : a \in DbRecords, n \in JobNames}

Call(op, j, id, name, ret) ==
    [op |-> op, job |-> j, id |-> id, name |-> name, states |-> {},
     jobs_db |-> FALSE, before |-> store, before_ids |-> doc_ids, ret |-> ret]

\* jobs_db.save(job)
DbSave(r) ==
    /\ dbcall = NoCall
    /\ Inserts(store, r) => last_id < MaxDocs
    /\ store' = save(store, r)
    /\ doc_ids' = save_doc_ids(store, doc_ids, last_id, r)
    /\ last_id' = save_last_id(store, last_id, r)
    /\ dbcall' = Call("save", <<r>>, r.job_id, r.job_name,
                      save_returns(store, doc_ids, last_id, r))
    /\ UNCHANGED <<job, pc, at, tries, monitor_failures, missed, job_desc, result, error, sem,
                   db_lock, remote, runner, client_closed, run, ncalls, answers, opjob,
                   entry, submitted, succeeded>>

\* jobs_db.find_by_job_id(job_id)
DbFindById(id) ==
    /\ dbcall = NoCall
    /\ dbcall' = Call("find_by_job_id", <<>>, id, "", find_by_job_id_returns(store, id))
    /\ UNCHANGED <<job, pc, at, tries, monitor_failures, missed, job_desc, result, error, sem,
                   db_lock, store, remote, runner, client_closed, run, ncalls, answers,
                   opjob, entry, submitted, succeeded, doc_ids, last_id>>

\* jobs_db.find_by_job_name(job_name)
DbFindByName(n) ==
    /\ dbcall = NoCall
    /\ dbcall' = Call("find_by_job_name", <<>>, NoId, n,
                      Documents(find_by_job_name(store, n)))
    /\ UNCHANGED <<job, pc, at, tries, monitor_failures, missed, job_desc, result, error, sem,
                   db_lock, store, remote, runner, client_closed, run, ncalls, answers,
                   opjob, entry, submitted, succeeded, doc_ids, last_id>>

\* jobs_db.remove_by_job_id(job_id)
DbRemoveById(id) ==
    /\ dbcall = NoCall
    /\ store' = remove(store, RemovedById(store, id))
    /\ doc_ids' = remove(doc_ids, RemovedById(store, id))
    /\ dbcall' = Call("remove_by_job_id", <<>>, id, "", find_by_job_id_returns(store, id))
    /\ UNCHANGED <<job, pc, at, tries, monitor_failures, missed, job_desc, result, error, sem,
                   db_lock, remote, runner, client_closed, run, ncalls, answers, opjob,
                   entry, submitted, succeeded, last_id>>

\* jobs_db.remove_by_job_name(job_name)
DbRemoveByName(n) ==
    /\ dbcall = NoCall
    /\ store' = remove(store, RemovedByName(store, n))
    /\ doc_ids' = remove(doc_ids, RemovedByName(store, n))
    /\ dbcall' = Call("remove_by_job_name", <<>>, NoId, n,
                      Documents(find_by_job_name(store, n)))
    /\ UNCHANGED <<job, pc, at, tries, monitor_failures, missed, job_desc, result, error, sem,
                   db_lock, remote, runner, client_closed, run, ncalls, answers, opjob,
                   entry, submitted, succeeded, last_id>>

\* jobs_db.find_jobs_to_run()
DbFindJobsToRun ==
    /\ dbcall = NoCall
    /\ dbcall' = Call("find_jobs_to_run", <<>>, NoId, "", Jobs(find_jobs_to_run(store)))
    /\ UNCHANGED <<job, pc, at, tries, monitor_failures, missed, job_desc, result, error, sem,
                   db_lock, store, remote, runner, client_closed, run, ncalls, answers,
                   opjob, entry, submitted, succeeded, doc_ids, last_id>>

\* jobs_to_run(jobs, jobs_db)
DbJobsToRun(jobs) ==
    /\ dbcall = NoCall
    /\ dbcall' = Call("jobs_to_run", jobs, NoId, "", Jobs(jobs_to_run(jobs, store)))
    /\ UNCHANGED <<job, pc, at, tries, monitor_failures, missed, job_desc, result, error, sem,
                   db_lock, store, remote, runner, client_closed, run, ncalls, answers,
                   opjob, entry, submitted, succeeded, doc_ids, last_id>>

\* jobs_db.find_latest_job_name(job_name)
DbFindLatest(n) ==
    /\ dbcall = NoCall
    /\ dbcall' = Call("find_latest_job_name", <<>>, NoId, n,
                      find_latest_job_name(store, n))
    /\ UNCHANGED <<job, pc, at, tries, monitor_failures, missed, job_desc, result, error, sem,
                   db_lock, store, remote, runner, client_closed, run, ncalls, answers,
                   opjob, entry, submitted, succeeded, doc_ids, last_id>>

\* the state sets the user asks for
DbStates == {CompleteStates, RunningStates, {"FAILED"}}

\* find_jobs_by_status(jobs, job_states) and find_jobs_by_status(jobs, job_states, jobs_db)
DbFindJobsByStatus(jobs, states, given) ==
    /\ dbcall = NoCall
    /\ dbcall' = [Call("find_jobs_by_status", jobs, NoId, "",
                       Jobs(find_jobs_by_status(jobs, states, store, given)))
                      EXCEPT !.states = states, !.jobs_db = given]
    /\ UNCHANGED <<job, pc, at, tries, monitor_failures, missed, job_desc, result, error, sem,
                   db_lock, store, remote, runner, client_closed, run, ncalls, answers,
                   opjob, entry, submitted, succeeded, doc_ids, last_id>>

\* the user has taken what the method returned and goes on to its next call
DbReturn ==
    /\ dbcall # NoCall
    /\ dbcall' = NoCall
    /\ UNCHANGED <<job, pc, at, tries, monitor_failures, missed, job_desc, result, error, sem,
                   db_lock, store, remote, runner, client_closed, run, ncalls, answers,
                   opjob, entry, submitted, succeeded, doc_ids, last_id>>

---------------------------------------------------------------------------
(* A user who constructs records with job names of any length, runs one of  *)
(* them and filters later ones with jobs_to_run.  A name is a sequence of   *)
(* characters.                                                             *)

\* the names given: every length up to MaxNameLen, of one character throughout or
\* with another one in the last place
GivenNames ==
    UNION {{[i \in 1..n |-> "a"], [i \in 1..n |-> IF i = n THEN "x" ELSE "a"]} :
               n \in 1..MaxNameLen}

\* AWSBatchJob(job_name=name, ...)
NameConstruct(name) ==
    /\ dbcall.op = "none"
    /\ dbcall' = [Call("AWSBatchJob", <<>>, NoId, "", Jobs(<<AWSBatchJobNamed(name)>>))
                      EXCEPT !.name = name]
    /\ UNCHANGED <<job, pc, at, tries, monitor_failures, missed, job_desc, result, error,
                   sem, db_lock, store, remote, runner, client_closed, run, ncalls,
                   answers, opjob, entry, submitted, succeeded, doc_ids, last_id>>

\* the record just constructed is run by a manager: submit_job(**job.params) gives
\* it a job id, the waiter sees it SUCCEEDED and the manager saves it
NameRun ==
    /\ dbcall.op = "AWSBatchJob"
    /\ store = <<>> /\ Len(remote) < MaxIds
    /\ LET j == dbcall.ret.rows[1]
           id == Len(remote) + 1
           d == [jobId |-> id, status |-> "SUCCEEDED", hasReason |-> FALSE,
                 statusReason |-> <<>>, createdAt |-> id]
           done == Described(Submitted(j, id), d)
       IN  /\ remote' = Append(remote, params(j).jobName)
           /\ store' = save(store, done)
           /\ doc_ids' = save_doc_ids(store, doc_ids, last_id, done)
           /\ last_id' = save_last_id(store, last_id, done)
           /\ dbcall' = [dbcall EXCEPT !.op = "manager", !.job = <<done>>, !.id = id,
                                       !.before = store, !.before_ids = doc_ids,
                                       !.ret = Jobs(<<done>>)]
    /\ UNCHANGED <<job, pc, at, tries, monitor_failures, missed, job_desc, result, error,
                   sem, db_lock, runner, client_closed, run, ncalls, answers, opjob,
                   entry, submitted, succeeded>>

\* jobs_to_run([job], jobs_db) for the record just constructed
NameJobsToRun ==
    /\ dbcall.op = "AWSBatchJob"
    /\ LET jobs == dbcall.ret.rows
       IN  dbcall' = [dbcall EXCEPT !.op = "jobs_to_run", !.job = jobs,
                                   !.before = store, !.before_ids = doc_ids,
                                   !.ret = Jobs(jobs_to_run(jobs, store))]
    /\ UNCHANGED <<job, pc, at, tries, monitor_failures, missed, job_desc, result, error,
                   sem, db_lock, store, remote, runner, client_closed, run, ncalls,
                   answers, opjob, entry, submitted, succeeded, doc_ids, last_id>>

\* the user goes on to the next record
NameReturn ==
    /\ dbcall.op \in {"manager", "jobs_to_run"}
    /\ dbcall' = NoCall
    /\ UNCHANGED <<job, pc, at, tries, monitor_failures, missed, job_desc, result, error,
                   sem, db_lock, store, remote, runner, client_closed, run, ncalls,
                   answers, opjob, entry, submitted, succeeded, doc_ids, last_id>>

---------------------------------------------------------------------------
(* Specifications *)

TaskStep(p) ==
    \/ ManagerLoop(p)
    \/ ManagerRetriesExceeded(p)
    \/ AdapterAcquire(p)
    \/ AdapterCall(p)
    \/ AdapterExceeded(p)
    \/ AdapterThrottled(p)
    \/ AdapterJitter(p)
    \/ AdapterClientError(p)
    \/ SubmitOk(p)
    \/ SubmitNotSuccess(p)
    \/ \E d \in Descriptions(job[p]) : StatusFound(p, d)
    \/ StatusMiss(p)
    \/ WaiterStartPause(p)
    \/ WaiterPause(p)
    \/ LockAcquire(p)
    \/ SaveSubmit(p)
    \/ SaveWait(p)
    \/ SaveReset(p)

CallerStep ==
    \/ CallerTerminate
    \/ AdapterAcquire(Caller)
    \/ AdapterCall(Caller)
    \/ AdapterExceeded(Caller)
    \/ AdapterThrottled(Caller)
    \/ AdapterJitter(Caller)
    \/ AdapterClientError(Caller)
    \/ TerminateOk(Caller)

\* the batch of one job name
OneName == {"t-0000"}

\* one job name, run and restarted on the same store
Init ==
    \E mt \in 1..MaxTries :
        InitWith([n \in OneName |-> AWSBatchJob(n, mt)], OneName)

Next ==
    \/ \E p \in OneName : TaskStep(p)
    \/ RunnerClose
    \/ RunnerFail
    \/ RestartRecover
    \/ RestartFresh

Spec == Init /\ [][Next]_vars

\* one run of the batch runner on two job names
InitConcurrent ==
    InitWith([n \in JobNames |-> AWSBatchJob(n, 1)], JobNames)

NextConcurrent ==
    \/ \E p \in JobNames : TaskStep(p)
    \/ RunnerClose
    \/ RunnerFail

SpecConcurrent == InitConcurrent /\ [][NextConcurrent]_vars

\* one run on one job name, beside a caller that terminates jobs
InitCaller ==
    InitWith([n \in OneName |-> AWSBatchJob(n, MaxTries)], OneName \cup {Caller})

NextCaller ==
    \/ \E p \in OneName : TaskStep(p)
    \/ CallerStep
    \/ RunnerClose
    \/ RunnerFail

SpecCaller == InitCaller /\ [][NextCaller]_vars

\* one run of the manager on one job name, with a loop that runs every ready task,
\* a remote service that answers every call, and a job that comes to a final status
NextRun ==
    \/ \E p \in OneName : TaskStep(p)
    \/ RunnerClose
    \/ RunnerFail

\* describe_jobs answers with the entry of the job at a final status
FinalFound(p) ==
    \E d \in Descriptions(job[p]) : d.status \in Terminal /\ StatusFound(p, d)

\* the task is run whenever it can take a step, and a job that is described again
\* and again is at last described at a final status
Scheduling ==
    \A p \in OneName : WF_vars(TaskStep(p)) /\ SF_vars(FinalFound(p))

SpecRun == Init /\ [][NextRun]_vars /\ Scheduling

\* the same run, in which the task and the caller can be cancelled inside a call
NextCancel ==
    \/ \E p \in OneName : TaskStep(p)
    \/ CallerStep
    \/ \E p \in OneName \cup {Caller} : AdapterCancelled(p)
    \/ RunnerClose
    \/ RunnerFail

SpecCancel == InitCaller /\ [][NextCancel]_vars

\* one run on two job names, beside a caller that terminates jobs
InitGate ==
    InitWith([n \in JobNames |-> AWSBatchJob(n, 1)], JobNames \cup {Caller})

NextGate ==
    \/ \E p \in JobNames : TaskStep(p)
    \/ CallerStep
    \/ RunnerClose
    \/ RunnerFail

SpecGate == InitGate /\ [][NextGate]_vars

\* a user of the store, on a table that starts empty
InitDB == InitWith(<<>>, {})

NextDB ==
    \/ \E r \in DbRecords : DbSave(r)
    \/ \E id \in 1..MaxRows : DbFindById(id)
    \/ \E n \in JobNames : DbFindByName(n)
    \/ \E id \in 1..MaxRows : DbRemoveById(id)
    \/ \E n \in JobNames : DbRemoveByName(n)
    \/ DbFindJobsToRun
    \/ \E n \in JobNames : DbFindLatest(n)
    \/ \E jobs \in DbInputs : DbJobsToRun(jobs)
    \/ \E jobs \in DbInputs, states \in DbStates, given \in BOOLEAN :
           DbFindJobsByStatus(jobs, states, given)
    \/ DbReturn

SpecDB == InitDB /\ [][NextDB]_vars

\* a user of records with job names of any length, on a table that starts empty
InitName == InitWith(<<>>, {})

NextName ==
    \/ \E name \in GivenNames : NameConstruct(name)
    \/ NameRun
    \/ NameJobsToRun
    \/ NameReturn

SpecName == InitName /\ [][NextName]_vars

---------------------------------------------------------------------------
(* Properties *)

HasRow(id) == find_by_job_id(store, id) # <<>>
Row(id) == find_by_job_id(store, id)[1]

\* the store holds job `id` as ended by a spot reclaim
SpotReclaimed(id) ==
    /\ HasRow(id)
    /\ Row(id).status = "FAILED"
    /\ Row(id).job_description.hasReason
    /\ Row(id).job_description.statusReason = ReasonSpot

NonTerminal == StatusSet \ Terminal

\* the record entered the manager of this run without a job id and without tries
EnteredFresh(p) == entry[p].job_id = NoId /\ entry[p].num_tries = 0

\* C1: a submit call is issued for a record only while its job_id is absent, and a
\* record that entered the manager with a job_id is submitted again only after that
\* job was saved as FAILED by a spot reclaim, the case in which reset() clears the id
C1_SubmitOnlyWithoutJobId ==
    \A p \in Batch :
        /\ pc[p] = "submit" => job[p].job_id = NoId
        /\ entry[p].job_id # NoId /\ submitted[p] => SpotReclaimed(entry[p].job_id)

\* an adopted record whose job was reclaimed is being submitted again
C1_Witness ==
    \E p \in Batch :
        entry[p].job_id # NoId /\ pc[p] = "submit" /\ at[p] = "inflight"

\* C2: a record that enters the manager with a job_id and a non-terminal status,
\* whatever its num_tries and max_tries, is not submitted before, and its manager
\* does not return before, the store row of that job_id holds a terminal status
C2_CrashRecovery ==
    \A p \in Batch :
        entry[p].job_id # NoId /\ entry[p].status \in NonTerminal
            /\ (submitted[p] \/ pc[p] = "done")
        => /\ HasRow(entry[p].job_id)
           /\ Row(entry[p].job_id).status \in Terminal

\* C3: a name that an earlier run drove to SUCCEEDED is dropped by jobs_to_run when a
\* later run filters a fresh record of that name, and no submit is issued for it
C3_DedupByName ==
    \A n \in Batch :
        n \in succeeded /\ run > 1 /\ EnteredFresh(n)
        => pc[n] = "skipped" /\ ~submitted[n]

\* the record of task p has been reset after an attempt
ResetState(p) == job[p].job_id = NoId /\ job[p].num_tries > 0

\* C4: the manager resets a record only when the waiter returned FAILED with the
\* spot-reclaim statusReason; a FAILED description it returns has no such reason, is
\* the record's description, and the store row of that job id has status FAILED
C4_SelectiveRetry ==
    \A p \in Batch :
        /\ ResetState(p) =>
               SpotReclaimed(job[p].job_tries[Len(job[p].job_tries)])
        /\ pc[p] = "done" /\ result[p].status = "FAILED" =>
               /\ ~(result[p].hasReason /\ result[p].statusReason = ReasonSpot)
               /\ job[p].job_description = result[p]
               /\ job[p].status = "FAILED"
               /\ job[p].job_id = result[p].jobId
               /\ HasRow(job[p].job_id)
               /\ Row(job[p].job_id).status = "FAILED"
               /\ Row(job[p].job_id).job_description = result[p]

\* the manager has returned a FAILED description whose reason holds the pattern's
\* words, but not at its start
C4_Witness ==
    \E p \in Batch :
        /\ pc[p] = "done"
        /\ result[p].status = "FAILED"
        /\ result[p].hasReason
        /\ result[p].statusReason = ReasonNotAtStart

\* C5: num_tries never exceeds max_tries; a manager that has submitted and returns
\* absent has num_tries = max_tries, its last attempt ended in a spot reclaim, and
\* the record is left with job_id and status absent
C5_RetryCeiling ==
    \A p \in Batch :
        /\ job[p].num_tries <= job[p].max_tries
        /\ Len(job[p].job_tries) = job[p].num_tries
        /\ pc[p] = "done" /\ result[p] = NoDesc /\ submitted[p] =>
               /\ job[p].num_tries = job[p].max_tries
               /\ job[p].job_id = NoId
               /\ job[p].status = NoStatus
               /\ SpotReclaimed(job[p].job_tries[Len(job[p].job_tries)])

\* two attempts, both reclaimed, and the manager has returned absent
C5_Witness ==
    \E p \in Batch :
        /\ pc[p] = "done" /\ result[p] = NoDesc /\ submitted[p]
        /\ EnteredFresh(p)
        /\ job[p].num_tries = 2

\* C6: when the manager of a fresh record returns a SUCCEEDED description after k
\* reclaimed attempts, the record has num_tries = k+1, job_tries lists the k+1 remote
\* ids of this run in submission order, job_id is the last one, status is SUCCEEDED
C6_SpotReclaimOutcome ==
    \A p \in Batch :
        pc[p] = "done" /\ result[p].status = "SUCCEEDED" /\ EnteredFresh(p) =>
            LET j == job[p]
                n == j.num_tries
            IN  /\ n >= 1 /\ Len(j.job_tries) = n
                /\ j.status = "SUCCEEDED"
                /\ j.job_id = j.job_tries[n]
                /\ j.job_description = result[p]
                /\ result[p].jobId = j.job_id
                /\ \A i \in 1..n :
                       /\ j.job_tries[i] = Len(remote) - n + i
                       /\ remote[j.job_tries[i]] = j.job_name
                /\ \A i \in 1..(n - 1) : SpotReclaimed(j.job_tries[i])
                /\ HasRow(j.job_id) /\ Row(j.job_id).status = "SUCCEEDED"

\* one reclaimed attempt, then a SUCCEEDED one
C6_Witness ==
    \E p \in Batch :
        /\ pc[p] = "done" /\ result[p].status = "SUCCEEDED" /\ EnteredFresh(p)
        /\ job[p].num_tries = 2

Holders == {p \in Procs : InAdapter(p)}

\* C7: the processes inside a remote call or its throttle backoff, over submit,
\* describe and terminate together, are never more than the gate width; each of them
\* holds one slot of the gate, and only they have a call in flight
C7_GateBound ==
    /\ Cardinality(Holders) <= GateWidth
    /\ sem = GateWidth - Cardinality(Holders)
    /\ \A p \in Procs : ncalls[p] > Len(answers[p]) => p \in Holders

\* one process sleeps in its backoff with the slot while two others wait for it
C7_Witness ==
    \E p \in Procs :
        /\ at[p] = "jitter"
        /\ \A q \in Procs \ {p} : pc[q] \in AdapterOps /\ at[q] = "-"
        /\ {pc[q] : q \in Procs} = AdapterOps

\* C8: an adapter call issues at most `retries` remote calls and every answer before
\* the last is a throttle; it raises RuntimeError after exactly `retries` throttled
\* calls with the record as it found it; a submit that succeeds after k throttles
\* has issued k+1 calls and has added one try to the record
C8_ThrottleRetryCount ==
    \A p \in Procs :
        LET a == answers[p]
            n == Len(a)
        IN  /\ ncalls[p] <= Retries
            /\ ncalls[p] = n + (IF at[p] = "inflight" THEN 1 ELSE 0)
            /\ \A i \in 1..(n - 1) : a[i] = "throttle"
            /\ Raised(p) /\ error[p] = "RuntimeError" =>
                   /\ n = Retries
                   /\ a[n] = "throttle"
                   /\ p \in Batch => job[p] = opjob[p]
            /\ p \in Batch /\ pc[p] = "save_submit" /\ n > 0 /\ a[n] = "ok" =>
                   /\ job[p].job_id # NoId
                   /\ job[p].num_tries = opjob[p].num_tries + 1
                   /\ job[p].job_tries = Append(opjob[p].job_tries, job[p].job_id)
                   /\ \A i \in 1..Len(opjob[p].job_tries) :
                          opjob[p].job_tries[i] # job[p].job_id

\* a terminate that was throttled on every call, beside a submit that succeeded
\* after one throttle
C8_Witness ==
    /\ Caller \in Procs
    /\ Raised(Caller) /\ error[Caller] = "RuntimeError" /\ pc[Caller] = "terminate"
    /\ \E p \in Batch :
           pc[p] = "save_submit" /\ answers[p] = <<"throttle", "ok">>

\* C9: a client error other than a throttle is the last answer of its adapter call
\* and the process has raised it; after a failed submit the record is as the call
\* found it and the store holds no row of the name beyond the record's earlier tries
C9_ClientErrorPropagates ==
    \A p \in Procs :
        (\E i \in 1..Len(answers[p]) : answers[p][i] = "error") =>
            /\ Raised(p)
            /\ error[p] = "ClientError"
            /\ answers[p][Len(answers[p])] = "error"
            /\ \A i \in 1..(Len(answers[p]) - 1) : answers[p][i] = "throttle"
            /\ ncalls[p] = Len(answers[p])
            /\ p \in Batch => job[p] = opjob[p]
            /\ p \in Batch /\ pc[p] = "submit" =>
                   /\ job[p].job_id = NoId
                   /\ \A i \in 1..Len(store) :
                          store[i].job_name = job[p].job_name =>
                              \E k \in 1..Len(job[p].job_tries) :
                                  job[p].job_tries[k] = store[i].job_id

\* a submit of a second attempt fails with a client error after one throttle
C9_Witness ==
    \E p \in Batch :
        /\ Raised(p) /\ error[p] = "ClientError" /\ pc[p] = "submit"
        /\ answers[p] = <<"throttle", "error">>
        /\ job[p].num_tries = 1

\* the stored row of a name with the largest job_description.createdAt
LatestRow(rows) ==
    rows[CHOOSE i \in 1..Len(rows) :
             \A k \in 1..Len(rows) :
                 rows[i].job_description.createdAt >= rows[k].job_description.createdAt]

\* C10: for a name with several stored rows jobs_to_run decides by the row with the
\* largest job_description.createdAt: an input held as FAILED is dropped when that
\* row is SUCCEEDED
C10_StoreAuthoritative ==
    \A n \in Batch :
        LET rows == find_by_job_name(store, n)
        IN  Len(rows) > 1 /\ LatestRow(rows).status = "SUCCEEDED" =>
                \A i \in 1..Len(rows) :
                    rows[i].status = "FAILED" =>
                        jobs_to_run(<<FromRow(rows[i])>>, store) = <<>>

\* the records of a sequence
Range(seq) == {seq[i] : i \in 1..Len(seq)}

\* C11: jobs_to_run returns exactly the inputs whose name has no stored row or whose
\* latest stored row is not SUCCEEDED, whatever status the input itself holds, and
\* leaves the store as it was
C11_JobsToRunByStore ==
    dbcall.op = "jobs_to_run" =>
        /\ store = dbcall.before
        /\ dbcall.ret =
               Jobs(SelectSeq(dbcall.job,
                              LAMBDA j :
                                  LET rows == find_by_job_name(store, j.job_name)
                                  IN  rows = <<>> \/ LatestRow(rows).status # "SUCCEEDED"))

\* C12: jobs_to_run drops an input that holds a job_id and the status SUCCEEDED, also
\* when the store has no row of its name, and keeps an input with a job_id and
\* another status when the store has no row of its name
C12_JobsToRunInMemory ==
    dbcall.op = "jobs_to_run" =>
        \A j \in Range(dbcall.job) :
            /\ j.job_id # NoId /\ j.status = "SUCCEEDED" =>
                   j \notin Range(dbcall.ret.rows)
            /\ j.job_id # NoId /\ j.status # "SUCCEEDED"
                   /\ find_by_job_name(store, j.job_name) = <<>> =>
                   j \in Range(dbcall.ret.rows)

\* an unsaved SUCCEEDED record is dropped and the fresh record after it is kept
C12_Witness ==
    /\ dbcall.op = "jobs_to_run"
    /\ store = <<>>
    /\ dbcall.job = <<HeldJob("t-0000", 1, "SUCCEEDED"), AWSBatchJob("t-0001", 1)>>
    /\ dbcall.ret = Jobs(<<AWSBatchJob("t-0001", 1)>>)

\* the record the last save was called with
Saved == dbcall.job[1]

\* the stored rows are the record's db_data under its job_id, once
HoldsOnce(db, r) == find_by_job_id(db, r.job_id) = <<db_data(r)>>

\* C13 as stated: save(r) leaves the store unchanged if and only if r.job_id is absent
C13_SaveNoOpIff ==
    dbcall.op = "save" => (store = dbcall.before <=> Saved.job_id = NoId)

\* C13, amended: save(r) with job_id absent returns None without raising and leaves
\* the store as it was; with job_id present the store afterwards holds a row keyed by
\* r.job_id equal to r.db_data, and is unchanged only if it already held that row
C13_SaveWritesByJobId ==
    dbcall.op = "save" =>
        /\ Saved.job_id = NoId =>
               store = dbcall.before /\ doc_ids = dbcall.before_ids /\ dbcall.ret = None
        /\ Saved.job_id # NoId =>
               /\ \E i \in 1..Len(store) :
                      store[i].job_id = Saved.job_id /\ store[i] = db_data(Saved)
               /\ store = dbcall.before <=> HoldsOnce(dbcall.before, Saved)

\* a record without job_id was saved on a store that holds rows
C13_Witness ==
    dbcall.op = "save" /\ Saved.job_id = NoId /\ store # <<>>

\* C14: the store holds at most one row per job_id after any sequence of saves and
\* removes; after save(r) a second save(r) changes nothing, and one row is keyed by
\* r.job_id
C14_SaveIsUpsert ==
    /\ \A i, k \in 1..Len(store) : store[i].job_id = store[k].job_id => i = k
    /\ dbcall.op = "save" /\ Saved.job_id # NoId =>
           /\ Len(find_by_job_id(store, Saved.job_id)) = 1
           /\ save(store, Saved) = store
           /\ Len(store) = Len(dbcall.before)
                  + (IF find_by_job_id(dbcall.before, Saved.job_id) = <<>> THEN 1 ELSE 0)

\* a save has replaced the row of its job_id beside a row of another job_id
C14_Witness ==
    /\ dbcall.op = "save" /\ Saved.job_id # NoId
    /\ find_by_job_id(dbcall.before, Saved.job_id) # <<>>
    /\ ~HoldsOnce(dbcall.before, Saved)
    /\ Len(store) = 2

\* C15: after save(r) with job_id present, find_by_job_id(r.job_id) returns a row
\* equal to r.db_data, also beside rows of the same name or of other job_ids, and a
\* row that find_by_job_id returns has the job_id asked for
C15_SaveFindRoundTrip ==
    /\ dbcall.op = "save" /\ Saved.job_id # NoId =>
           find_by_job_id_returns(store, Saved.job_id) = Document(db_data(Saved))
    /\ dbcall.op = "find_by_job_id" /\ dbcall.ret # None =>
           /\ dbcall.ret.kind = "document"
           /\ dbcall.ret.rows[1].job_id = dbcall.id
           /\ dbcall.ret.rows[1] \in Range(store)

\* a record was saved after a row of the same name and another job_id
C15_Witness ==
    /\ dbcall.op = "save" /\ Saved.job_id # NoId
    /\ Len(store) = 2
    /\ store[1].job_name = Saved.job_name
    /\ store[1].job_id # Saved.job_id

RowsOf(db, n) == {row \in Range(db) : row.job_name = n}
RowsNotOf(db, n) == SelectSeq(db, LAMBDA row : row.job_name # n)

\* C17: find_jobs_to_run returns the stored rows whose status is not SUCCEEDED, each
\* as a job record and nothing else: no SUCCEEDED row, and every row with another
\* status, FAILED and absent included
C17_FindJobsToRun ==
    dbcall.op = "find_jobs_to_run" =>
        /\ dbcall.ret.kind = "jobs"
        /\ store = dbcall.before
        /\ \A row \in Range(store) :
               FromRow(row) \in Range(dbcall.ret.rows) <=> row.status # "SUCCEEDED"
        /\ Len(dbcall.ret.rows) =
               Cardinality({i \in 1..Len(store) : store[i].status # "SUCCEEDED"})

\* of a SUCCEEDED row and a FAILED one the listing holds the FAILED one
C17_Witness ==
    /\ dbcall.op = "find_jobs_to_run"
    /\ {row.status : row \in Range(store)} = {"SUCCEEDED", "FAILED"}
    /\ Len(dbcall.ret.rows) = 1
    /\ dbcall.ret.rows[1].status = "FAILED"

\* C18: find_by_job_name returns every row stored under the name, and
\* find_latest_job_name returns one of them whose job_description.createdAt is the
\* largest, in whatever order the rows were saved
C18_LatestByCreatedAt ==
    /\ dbcall.op = "find_by_job_name" =>
           /\ dbcall.ret.kind = "documents"
           /\ Range(dbcall.ret.rows) = RowsOf(store, dbcall.name)
           /\ Len(dbcall.ret.rows) = Cardinality(RowsOf(store, dbcall.name))
    /\ dbcall.op = "find_latest_job_name" =>
           /\ dbcall.ret = None <=> RowsOf(store, dbcall.name) = {}
           /\ dbcall.ret # None =>
                  /\ dbcall.ret.rows[1] \in RowsOf(store, dbcall.name)
                  /\ \A row \in RowsOf(store, dbcall.name) :
                         row.job_description.createdAt
                             <= dbcall.ret.rows[1].job_description.createdAt

\* the latest row of a name was saved before an earlier one
C18_Witness ==
    /\ dbcall.op = "find_latest_job_name"
    /\ Len(store) = 2
    /\ store[1].job_name = dbcall.name /\ store[2].job_name = dbcall.name
    /\ store[1].job_description.createdAt > store[2].job_description.createdAt
    /\ store[2].job_description.createdAt > 0
    /\ dbcall.ret = Document(store[1])

\* a set of job ids as a return value
JobIds(ids) == [kind |-> "job_ids", rows |-> <<>>, ids |-> ids]

\* after remove_by_job_name(n): no row of the name is left, a removed job id is not
\* found and not removed again, and the rows of other names are as they were
RemovedAll ==
    /\ RowsOf(store, dbcall.name) = {}
    /\ \A row \in RowsOf(dbcall.before, dbcall.name) :
           /\ find_by_job_id_returns(store, row.job_id) = None
           /\ RemovedById(store, row.job_id) = {}
    /\ RowsNotOf(store, dbcall.name) = RowsNotOf(dbcall.before, dbcall.name)
    /\ store = RowsNotOf(dbcall.before, dbcall.name)

C20_TriesCounted ==
    /\ \A p \in Batch :
           /\ job[p].num_tries = Len(job[p].job_tries)
           /\ entry[p].num_tries = Len(entry[p].job_tries)
    /\ \A i \in 1..Len(store) : store[i].num_tries = Len(store[i].job_tries)

\* a record rebuilt from its stored row was reclaimed, reset and submitted again
C20_Witness ==
    \E p \in Batch :
        /\ run > 1 /\ entry[p].job_id # NoId
        /\ pc[p] = "save_submit"
        /\ job[p].num_tries = 2

\* the last element of a record's or a row's job_tries is its job_id
LastTry(r) == Len(r.job_tries) > 0 /\ r.job_tries[Len(r.job_tries)] = r.job_id

\* C21: whenever a record holds a job_id, the last element of its job_tries is that
\* job_id, and so it is in every row of the store
C21_LastTryIsJobId ==
    /\ \A p \in Batch : job[p].job_id # NoId => LastTry(job[p])
    /\ \A i \in 1..Len(store) : store[i].job_id # NoId => LastTry(store[i])

\* a record on its second job id, saved after its second submit
C21_Witness ==
    \E p \in Batch :
        /\ Len(job[p].job_tries) = 2
        /\ job[p].job_id = job[p].job_tries[2]
        /\ job[p].job_tries[1] # job[p].job_id
        /\ \E i \in 1..Len(store) : store[i] = db_data(job[p])

\* C22: after reset() the record's job_id, job_submission, job_description and status
\* are absent and its job_name, job_queue, job_definition, job_tries, num_tries and
\* max_tries are those of the record the waiter returned; the manager submits such a
\* record again when its loop comes to it
C22_ResetFrame ==
    \A p \in Batch :
        /\ pc[p] = "save_reset" =>
               /\ job[p].job_id = NoId
               /\ job[p].job_submission = NoId
               /\ job[p].job_description = NoDesc
               /\ job[p].status = NoStatus
               /\ opjob[p].job_id # NoId /\ opjob[p].status = "FAILED"
               /\ job[p].job_name = opjob[p].job_name
               /\ job[p].job_queue = opjob[p].job_queue
               /\ job[p].job_definition = opjob[p].job_definition
               /\ job[p].job_tries = opjob[p].job_tries
               /\ job[p].num_tries = opjob[p].num_tries
               /\ job[p].max_tries = opjob[p].max_tries
               /\ MustSubmit(job[p])
        /\ pc[p] = "loop" /\ job[p].num_tries > 0 /\ job[p].job_id = NoId =>
               /\ job[p].status = NoStatus /\ job[p].job_description = NoDesc
               /\ Len(job[p].job_tries) = job[p].num_tries
               /\ ManagerLoopTest(job[p]) => MustSubmit(job[p])

\* a record that was reset after its first attempt is in the submit call again
C22_Witness ==
    \E p \in Batch :
        /\ pc[p] = "submit" /\ at[p] = "inflight"
        /\ job[p].num_tries = 1 /\ Len(job[p].job_tries) = 1
        /\ job[p].job_id = NoId
        /\ job[p].max_tries = 2

\* C23: whenever the waiter has returned a description, its status is SUCCEEDED or
\* FAILED and the record's status and job_description are that description; while
\* the last status the record took is not final, the waiter has returned none
C23_WaiterReturnsTerminal ==
    \A p \in Batch :
        pc[p] = "save_wait" /\ ~Raised(p) =>
            /\ job_desc[p] # NoDesc =>
                   /\ job_desc[p].status \in Terminal
                   /\ job_desc[p].jobId = job[p].job_id
                   /\ job[p].status = job_desc[p].status
                   /\ job[p].job_description = job_desc[p]
            /\ job[p].status \notin Terminal => job_desc[p] = NoDesc

\* the waiter has returned the description of a job that failed with a reason
C23_Witness ==
    \E p \in Batch :
        /\ pc[p] = "save_wait"
        /\ job_desc[p].status = "FAILED" /\ job_desc[p].hasReason
        /\ job[p].job_description = job_desc[p]

\* the waiter of p has given up: it has returned without a description
GaveUp(p) == pc[p] = "save_wait" /\ ~Raised(p) /\ job_desc[p] = NoDesc

\* C24: the waiter gives up on a job only after more than `retries` describe answers
\* in a row lacked its entry; misses with an answer that held the entry between them
\* do not add up
C24_GiveUpAfterConsecutiveMisses ==
    \A p \in Batch : GaveUp(p) => missed[p] > Retries

\* C25: the remote client is closed only after every manager task of the run has
\* finished, by a return or by a raise: none is still in flight at the close
C25_CloseAfterAllTasks ==
    client_closed => \A p \in Batch : Finished(p) \/ Raised(p)

\* the manager's three saves, and the tasks inside `async with jobs_db.DB_SEMAPHORE`
SavePcs == {"save_submit", "save_wait", "save_reset"}
LockHolders == {p \in Batch : at[p] = "locked"}

\* the step in which the manager task p leaves one of its saves
SaveStep(p) ==
    /\ pc[p] \in SavePcs /\ ~Raised(p)
    /\ pc'[p] # pc[p] \/ at'[p] = "raised"

\* C26: at most one manager task is inside a save at any time and the lock counts
\* it; every save, and so every write of the store, is a step of the task that
\* holds the lock, and that step releases it
C26_StoreWritesSerialized ==
    /\ [](Cardinality(LockHolders) <= 1 /\ db_lock = 1 - Cardinality(LockHolders))
    /\ [][/\ \A p \in Batch :
                SaveStep(p) =>
                    /\ LockHolders = {p}
                    /\ at'[p] # "locked"
                    /\ db_lock' = db_lock + 1
          /\ store' # store => \E p \in Batch : SaveStep(p)]_vars

\* one task is inside its save while the other waits for the lock at its own
C26_Witness ==
    \E p, q \in Batch :
        /\ p # q
        /\ at[p] = "locked"
        /\ pc[q] \in SavePcs /\ at[q] = "-"
        /\ db_lock = 0

\* C27: every status the waiter gives the record is written to the store at least
\* once: when the waiter replaces a status that is not final by the next one, the
\* row of the job already holds the status that is replaced (the record is the only
\* source of a later write, and a job's status does not come back)
C27_EveryStatusPersisted ==
    [][\A p \in Batch :
           /\ pc[p] = "status" /\ at[p] = "inflight"
           /\ job[p].status \in NonTerminal
           /\ job'[p].status # job[p].status
           => /\ HasRow(job[p].job_id)
              /\ Row(job[p].job_id).status = job[p].status]_vars

\* the job ids of the attempts a record has left behind
PastTries(j) == {j.job_tries[i] : i \in 1..Len(j.job_tries)} \ {j.job_id}

\* the row of job `id` holds status FAILED and a FAILED description of that job
FailedRow(id) ==
    /\ HasRow(id)
    /\ Row(id).status = "FAILED"
    /\ Row(id).job_description.jobId = id
    /\ Row(id).job_description.status = "FAILED"

\* C28: once the manager has handled an attempt that ended FAILED, the row of that
\* attempt's job id holds status FAILED and the description the waiter returned for
\* it, for a spot reclaim that was retried as for a failure that was returned, and
\* no later step changes or removes a row that holds FAILED
C28_FailedAttemptKept ==
    /\ [](\A p \in Batch :
              /\ \A id \in PastTries(job[p]) :
                     /\ FailedRow(id)
                     /\ Row(id).job_description.hasReason
                     /\ SpotFailure(Row(id).job_description.statusReason)
              /\ pc[p] = "done" /\ result[p].status = "FAILED" =>
                     /\ FailedRow(result[p].jobId)
                     /\ Row(result[p].jobId).job_description = result[p])
    /\ [][\A id \in 1..MaxIds :
              HasRow(id) /\ Row(id).status = "FAILED" =>
                  find_by_job_id(store', id) = find_by_job_id(store, id)]_vars

\* the row of a reclaimed first attempt is kept while the second attempt, which
\* failed for good, is returned in a later run
C28_Witness ==
    \E p \in Batch :
        /\ run > 1
        /\ pc[p] = "done" /\ result[p].status = "FAILED"
        /\ PastTries(job[p]) # {}
        /\ \A id \in PastTries(job[p]) : FailedRow(id)

\* the rows of a name that no row of the name is later than
LatestRows(db, n) ==
    {row \in RowsOf(db, n) :
        \A other \in RowsOf(db, n) :
            other.job_description.createdAt <= row.job_description.createdAt}

\* the job's effective status is among the states: the status of a latest row of its
\* name when a store is given and holds the name, its own status otherwise
Effective(j, states, db, given) ==
    IF given /\ RowsOf(db, j.job_name) # {}
    THEN \E row \in LatestRows(db, j.job_name) : row.status \in states
    ELSE j.status \in states

\* C29: find_jobs_by_status yields exactly the jobs whose effective status is among
\* the states asked for, in the order given, the store's latest row of the name
\* deciding when a store is given; find_complete_jobs and find_running_jobs share no
\* job
C29_FindJobsByStatus ==
    dbcall.op = "find_jobs_by_status" =>
        /\ dbcall.ret.kind = "jobs"
        /\ dbcall.ret.rows =
               SelectSeq(dbcall.job,
                         LAMBDA j : Effective(j, dbcall.states, store, dbcall.jobs_db))
        /\ Range(find_complete_jobs(dbcall.job, store, dbcall.jobs_db))
               \cap Range(find_running_jobs(dbcall.job, store, dbcall.jobs_db)) = {}

\* a job without a status of its own is yielded as complete for the latest row of
\* its name, which was saved before an earlier, running one
C29_Witness ==
    /\ dbcall.op = "find_jobs_by_status"
    /\ dbcall.jobs_db /\ dbcall.states = CompleteStates
    /\ Len(dbcall.job) = 1 /\ dbcall.job[1].status = NoStatus
    /\ Len(store) = 2
    /\ store[1].job_name = dbcall.job[1].job_name
    /\ store[2].job_name = dbcall.job[1].job_name
    /\ store[1].status = "SUCCEEDED" /\ store[2].status = "RUNNING"
    /\ store[1].job_description.createdAt > store[2].job_description.createdAt
    /\ dbcall.ret.rows = dbcall.job

\* the first characters of a name, up to the cap, one by one
IsCut(short, name) ==
    /\ Len(short) = (IF Len(name) <= NameCap THEN Len(name) ELSE NameCap)
    /\ \A i \in 1..Len(short) : short[i] = name[i]

\* C30: a record's job_name is the first 128 characters of the name it was
\* constructed with, the whole name when that is not longer; this is the name
\* submit_job is called with, the name of the row saved, and the name jobs_to_run
\* looks the record up by
C30_JobNameCut ==
    /\ dbcall.op = "AWSBatchJob" =>
           /\ IsCut(dbcall.ret.rows[1].job_name, dbcall.name)
           /\ Len(dbcall.name) <= NameCap => dbcall.ret.rows[1].job_name = dbcall.name
           /\ Len(dbcall.name) > NameCap => Len(dbcall.ret.rows[1].job_name) = NameCap
    /\ dbcall.op = "manager" =>
           /\ IsCut(remote[dbcall.id], dbcall.name)
           /\ \E i \in 1..Len(store) :
                  store[i].job_id = dbcall.id /\ IsCut(store[i].job_name, dbcall.name)
    /\ dbcall.op = "jobs_to_run" /\ dbcall.name \in GivenNames =>
           (dbcall.ret.rows = <<>>
               <=> \E i \in 1..Len(store) : IsCut(store[i].job_name, dbcall.name))

\* a record constructed with a name of more than 128 characters is not run again: a
\* record with another name of the same first 128 characters has succeeded
C30_Witness ==
    /\ dbcall.op = "jobs_to_run" /\ dbcall.name \in GivenNames
    /\ Len(dbcall.name) = NameCap + 2
    /\ dbcall.ret.rows = <<>>
    /\ Len(store) = 1
    /\ Len(store[1].job_name) = NameCap
    /\ Len(remote[1]) = NameCap

\* C31: after the waiter has given up, the manager neither raises nor returns a
\* description: no manager ends with the TypeError of reading a status from the
\* None the waiter returned
C31_GiveUpIsNotAnError ==
    \A p \in Batch : ~(pc[p] = "save_wait" /\ Raised(p) /\ error[p] = "TypeError")

\* the record of p has been reset and saved, and is back at the head of the loop
ResetSaved(p) == pc[p] = "loop" /\ job[p].job_id = NoId /\ job[p].num_tries > 0

\* C32: the save after reset() writes to the store: from then until the next submit
\* the row of the reclaimed job id carries the cleared status, job_submission and
\* job_description
C32_ResetIsPersisted ==
    \A p \in Batch :
        ResetSaved(p) =>
            LET id == job[p].job_tries[Len(job[p].job_tries)]
            IN  /\ HasRow(id)
                /\ Row(id).status = NoStatus
                /\ Row(id).job_submission = NoId
                /\ Row(id).job_description = NoDesc

\* C33: between two describe calls the waiter sleeps exactly once after a status
\* that is not final and not at all after a missing description: the describe
\* follows the start-up pause directly, and no pause follows a miss
C33_OneSleepBetweenDescribes ==
    [][\A p \in Batch :
           run' = run =>
               /\ pc[p] = "pause_start" /\ pc'[p] # pc[p] => pc'[p] = "status"
               /\ pc[p] = "status" /\ at[p] = "inflight" /\ missed'[p] > missed[p]
                      => pc'[p] \notin {"pause_start", "pause"}]_vars

\* the ways out of an adapter call: a return, and a raise with its exception
AdapterExits == {"return", "ClientError", "RuntimeError", "CancelledError"}
ExitOf(p) == IF at'[p] = "raised" THEN error'[p] ELSE "return"

\* C34: a process holds one slot of the gate from its acquire to the end of its
\* adapter call, backoff sleeps included: a step inside the call leaves the gate as
\* it is, every way out of the call (a return, a ClientError, the RuntimeError of
\* exceeded retries, a cancellation) gives one slot back, and with no call in
\* progress every slot is free
C34_SlotHeldThroughCall ==
    /\ [](/\ sem = GateWidth - Cardinality(Holders)
          /\ Holders = {} => sem = GateWidth
          /\ \A p \in Procs : at[p] = "jitter" => p \in Holders /\ sem < GateWidth)
    /\ [][\A p \in Procs :
              /\ InAdapter(p) /\ InAdapter(p)' /\ Holders' = Holders => sem' = sem
              /\ InAdapter(p) /\ ~InAdapter(p)' =>
                     /\ ExitOf(p) \in AdapterExits
                     /\ sem' = sem + 1
              /\ ~InAdapter(p) /\ InAdapter(p)' => sem' = sem - 1]_vars

\* a call has raised RuntimeError after its backoff sleeps and the gate is free again
C34_Witness ==
    \E p \in Procs :
        /\ Raised(p) /\ error[p] = "RuntimeError"
        /\ Len(answers[p]) = Retries
        /\ sem = GateWidth
        /\ \E q \in Procs : Raised(q) /\ error[q] = "CancelledError"

\* a describe of the record's attempt has completed, with its entry or without
DescribeCompleted(p) == job[p].status # NoStatus \/ monitor_failures[p] > 0

\* C35 as stated: the first describe of an attempt completes before any save of the
\* record: while the store holds a row of the attempt's job id, a describe of it has
\* completed
C35_DescribeBeforeAnySave ==
    \A p \in Batch :
        pc[p] = "status" /\ job[p].job_id # NoId /\ HasRow(job[p].job_id)
            => DescribeCompleted(p)

\* C35, amended: in every attempt the submit completes before the record's first
\* save, that save completes before the first describe is issued, and the first
\* describe completes before the save that follows the waiter
C35_SubmitSaveDescribeSave ==
    \A p \in Batch :
        /\ pc[p] = "save_submit" /\ job[p].job_id # NoId =>
               /\ job[p].job_id <= Len(remote)
               /\ remote[job[p].job_id] = job[p].job_name
               /\ ~HasRow(job[p].job_id)
               /\ ~DescribeCompleted(p)
        /\ pc[p] = "status" /\ job[p].job_id # NoId =>
               /\ job[p].job_id <= Len(remote)
               /\ HasRow(job[p].job_id)
        /\ pc[p] = "save_wait" /\ ~Raised(p) =>
               job_desc[p] # NoDesc \/ monitor_failures[p] > Retries

\* the first describe of a fresh record's attempt is in flight and its row is saved
C35_Witness ==
    \E p \in Batch :
        /\ EnteredFresh(p)
        /\ pc[p] = "status" /\ at[p] = "inflight"
        /\ job[p].job_id # NoId /\ ~DescribeCompleted(p)
        /\ HasRow(job[p].job_id)
        /\ Row(job[p].job_id).status = NoStatus

\* a manager task that has neither returned nor raised
Unfinished(p) == ~Finished(p) /\ ~Raised(p)

\* C36: a task that holds the store lock is inside a save, not in a remote call and
\* not waiting for a slot of the gate; whenever the lock is taken such a task holds
\* it; a task that holds a slot is inside a remote call, not waiting for the lock;
\* and while the run goes on and a task is unfinished, some task can take a step
C36_NoLockAcrossRemoteCall ==
    /\ \A p \in Batch : at[p] = "locked" => pc[p] \in SavePcs /\ pc[p] \notin AdapterOps
    /\ db_lock < 1 => LockHolders # {}
    /\ \A p \in Holders : pc[p] \in AdapterOps /\ pc[p] \notin SavePcs
    /\ sem < GateWidth => Holders # {}
    /\ runner = "running" /\ (\E p \in Batch : Unfinished(p))
           => ENABLED (\E p \in JobNames : TaskStep(p))

\* one task sleeps in its backoff with the slot, the other is inside its save
C36_Witness ==
    \E p, q \in Batch :
        /\ at[p] = "jitter" /\ sem = 0
        /\ at[q] = "locked" /\ db_lock = 0

\* the rows stored under the job_id of p's record
RowsById(p) == find_by_job_id(store, job[p].job_id)

\* the manager of p has returned a description
Returned(p) == pc[p] = "done" /\ result[p] # NoDesc

\* p takes no part in the step
Idle(p) == pc'[p] = pc[p] /\ at'[p] = at[p] /\ job'[p] = job[p]

\* C37: with managers run concurrently on distinct job names, once a manager has
\* returned a description the store holds exactly one row with the record's job_id,
\* whose status, job_tries and num_tries are the record's, and no step of another
\* manager changes the rows of that name
C37_FinalConsistency ==
    /\ [](\A p \in Batch :
             Returned(p) =>
                 /\ Len(RowsById(p)) = 1
                 /\ RowsById(p)[1] = db_data(job[p])
                 /\ RowsById(p)[1].job_name = p
                 /\ RowsById(p)[1].status = result[p].status
                 /\ RowsOf(store, p) = {db_data(job[p])})
    /\ [][\A p \in Batch : Idle(p) => RowsOf(store', p) = RowsOf(store, p)]_vars

\* both managers have returned, one a success and one a failure, and the store holds
\* the two rows
C37_Witness ==
    /\ \A p \in Batch : Returned(p)
    /\ {result[p].status : p \in Batch} = {"SUCCEEDED", "FAILED"}
    /\ Cardinality({job[p].job_id : p \in Batch}) = 2
    /\ Len(store) = 2

\* the manager of p has ended: it returned, or it raised
Ended(p) == Finished(p) \/ Raised(p)

\* describe_jobs has answered p's waiter with the entry of its job
EntryRead(p) ==
    /\ pc[p] = "status" /\ at[p] = "inflight"
    /\ at'[p] = "-" /\ answers'[p] = Append(answers[p], "ok")

\* C38: with a loop that runs every ready task and a job that comes to a final
\* status after finitely many describes, every manager run ends (it returns a
\* description, returns nothing, or raises); and a describe that returns the job's
\* entry at a status other than SUCCEEDED and FAILED never ends the waiter, which
\* pauses and describes again
C38_ManagerEnds ==
    /\ \A p \in OneName : <>Ended(p)
    /\ [][\A p \in OneName :
              EntryRead(p) /\ job'[p].status \notin Terminal =>
                  pc'[p] \in {"pause_start", "pause"} /\ ~Raised(p)']_vars

\* a manager that went through every try it has, the last one after a spot reclaim,
\* ended with the description of a job that succeeded
C38_Witness ==
    \E p \in OneName :
        /\ Finished(p) /\ result[p].status = "SUCCEEDED"
        /\ job[p].max_tries = MaxTries
        /\ job[p].num_tries = MaxTries /\ Len(job[p].job_tries) = MaxTries

\* the remote job `id` is known: the store holds its row, or a record holds its id
Known(id) == HasRow(id) \/ \E p \in Batch : job[p].job_id = id

\* C39: wherever a manager is suspended, cancelled or lost after a submit succeeded,
\* the store holds a row for the new job_id already: a record that has left the
\* submit with a job_id has its row, and after a restart that recovers by job name no
\* remote job is left without a row and without a record
C39_NoOrphanWindow ==
    /\ \A p \in Batch :
           pc[p] # "submit" /\ job[p].job_id # NoId => HasRow(job[p].job_id)
    /\ \A id \in 1..Len(remote) : Known(id)

\* the pcs of the waiter: its describe and its two pauses
WaiterPcs == {"status", "pause_start", "pause"}

\* C40: the manager starts the waiter, and the waiter issues a describe, only for a
\* record that has a job_id; after a submit response that is not a success, which
\* leaves the record without one, no describe is issued
C40_NoDescribeWithoutJobId ==
    \A p \in Batch :
        /\ pc[p] \in WaiterPcs => job[p].job_id # NoId
        /\ pc[p] = "status" /\ at[p] = "inflight" => job[p].job_id # NoId

====
